---- MODULE Spec2Model ----
(***************************************************************************)
(* testbeam_analysis: the per-DUT hit functions of hit_analysis.py         *)
(* (generate_pixel_mask, remove_noisy_pixels, cluster_hits) as state       *)
(* machines over a small file system of PyTables files; the example        *)
(* scripts that drive them through a worker pool; the option widgets of    *)
(* the GUI.                                                                *)
(*                                                                         *)
(* A path is a sequence of one-character strings.  A file is a record of   *)
(* its nodes (Hits, HistOcc, Masks, Cluster).  A pixel array is a function *)
(* from 0-based index pairs <<i, j>> to its entries.                       *)
(*                                                                         *)
(* Floating point is modelled over the exact reals: the comparison         *)
(* difference > threshold * std is decided by cross-multiplied integers.   *)
(* plot=False throughout (plotting is an external collaborator).           *)
(***************************************************************************)
EXTENDS Integers, Sequences, FiniteSets, TLC

VARIABLES
    files,            \* the file system: path -> file, for the paths that exist
    files0,           \* the file system when the call started
    call,             \* the function called and its arguments
    pc,               \* where the call is: "start", ..., "done" (returned) or "raised"
    pos,              \* the chunked reader's position: the next row, from 1
    occupancy,        \* the local occupancy of generate_pixel_mask, remove_noisy_pixels
    output_hits_file, \* remove_noisy_pixels' output path after its None default
    pixel_mask,       \* remove_noisy_pixels' local pixel_mask
    disabled_pixels,  \* cluster_hits' local disabled_pixels
    noisy_pixels,     \* cluster_hits' local noisy_pixels
    chunks,           \* the chunks the reader has yielded in the current loop
    cluster_hits,     \* the clustered hits the clusterizer returned, all chunks so far
    output_file,      \* output_mask_file or output_cluster_file after its None default
    opened,           \* every tb.open_file(path, mode) made so far
    err,              \* the exception the call raised, "none" when none
    run,              \* which run of the call this is, and what the run before left
    driver,           \* a driver script: its position, its pool jobs, their files
    widget            \* an option widget: its class, its state, its last emitted value

vars == <<files, files0, call, pc, pos, occupancy, output_hits_file, pixel_mask,
          disabled_pixels, noisy_pixels, chunks, cluster_hits, output_file, opened, err,
          run, driver, widget>>

\* ------------------------------------------------------------------ bounds

\* Longest Hits table of the runs explored.
MaxHits == 3

\* Largest chunk_size argument explored.
MaxChunk == 2

\* Longest Hits table of the runs that explore the order of event numbers.
MaxStreamHits == 4

\* ------------------------------------------------------- generic helpers

RECURSIVE SumOver(_, _)
SumOver(f, S) ==
    IF S = {} THEN 0
    ELSE LET x == CHOOSE y \in S : TRUE IN f[x] + SumOver(f, S \ {x})

Min2(a, b) == IF a <= b THEN a ELSE b

\* The element of a one-element set.  {F(v) : v \in {e}} binds v to the value
\* of e, so that e is computed once however often F uses it.
Only(S) == CHOOSE x \in S : TRUE

Abs(a) == IF a < 0 THEN 0 - a ELSE a

\* Python's None, for an argument that otherwise holds a path.
None == <<"None">>

\* ------------------------------------------------------------------ paths

Upper == {"A", "B", "C", "D", "E", "F", "G", "H", "I", "J", "K", "L", "M",
          "N", "O", "P", "Q", "R", "S", "T", "U", "V", "W", "X", "Y", "Z"}

\* str.lower() on one character.
LowerChar(c) ==
    CASE c = "A" -> "a" [] c = "B" -> "b" [] c = "C" -> "c" [] c = "D" -> "d"
      [] c = "E" -> "e" [] c = "F" -> "f" [] c = "G" -> "g" [] c = "H" -> "h"
      [] c = "I" -> "i" [] c = "J" -> "j" [] c = "K" -> "k" [] c = "L" -> "l"
      [] c = "M" -> "m" [] c = "N" -> "n" [] c = "O" -> "o" [] c = "P" -> "p"
      [] c = "Q" -> "q" [] c = "R" -> "r" [] c = "S" -> "s" [] c = "T" -> "t"
      [] c = "U" -> "u" [] c = "V" -> "v" [] c = "W" -> "w" [] c = "X" -> "x"
      [] c = "Y" -> "y" [] c = "Z" -> "z" [] OTHER -> c

Lower(s) == [i \in 1..Len(s) |-> LowerChar(s[i])]

\* The largest index of character c in s, 0 when there is none (str.rfind + 1).
RFind(s, c) ==
    LET at == {i \in 1..Len(s) : s[i] = c}
    IN IF at = {} THEN 0 ELSE CHOOSE i \in at : \A j \in at : j <= i

\* os.path.splitext(p)[0]: the path up to its last dot, when that dot comes
\* after the last separator and after a character of the file name that is
\* not a dot; the whole path otherwise.
SplitextRoot(p) ==
    LET sep == RFind(p, "/")
        dot == RFind(p, ".")
    IN IF dot > sep /\ \E k \in (sep + 1)..(dot - 1) : p[k] # "."
       THEN SubSeq(p, 1, dot - 1)
       ELSE p

\* re.findall('[A-Z][^A-Z]*', name): the pieces of name that start at an
\* upper-case letter and run to the next one; what comes before the first
\* upper-case letter is dropped.
RECURSIVE FindallCamel(_)
FindallCamel(name) ==
    LET ups == {i \in 1..Len(name) : name[i] \in Upper}
    IN IF ups = {} THEN <<>>
       ELSE LET first == CHOOSE i \in ups : \A j \in ups : i <= j
                later == {j \in ups : j > first}
                stop  == IF later = {} THEN Len(name) + 1
                         ELSE CHOOSE i \in later : \A j \in later : i <= j
            IN <<SubSeq(name, first, stop - 1)>>
               \o FindallCamel(SubSeq(name, stop, Len(name)))

\* '_'.join(item.lower() for item in items)
RECURSIVE JoinLower(_)
JoinLower(items) ==
    IF items = <<>> THEN <<>>
    ELSE IF Len(items) = 1 THEN Lower(items[1])
    ELSE Lower(items[1]) \o <<"_">> \o JoinLower(Tail(items))

ExtH5 == <<".", "h", "5">>

\* The names of the mask nodes: "NoisyPixelMask" and "DisabledPixelMask".
NoisyPixelMask == <<"N", "o", "i", "s", "y", "P", "i", "x", "e", "l", "M", "a", "s", "k">>

DisabledPixelMask ==
    <<"D", "i", "s", "a", "b", "l", "e", "d", "P", "i", "x", "e", "l", "M", "a", "s", "k">>

\* generate_pixel_mask's output path when output_mask_file is None.
DefaultMaskFile(input_hits_file, pixel_mask_name) ==
    SplitextRoot(input_hits_file) \o <<"_">>
        \o JoinLower(FindallCamel(pixel_mask_name)) \o ExtH5

\* ------------------------------------------------------------------- hits

\* A row of a Hits table.
Hit(e, c, r, q, f) ==
    [event_number |-> e, column |-> c, row |-> r, charge |-> q, frame |-> f]

EventNumbers(rows) == [k \in 1..Len(rows) |-> rows[k].event_number]

\* np.all(np.diff(x) >= 0)
NonDecreasing(x) == \A k \in 1..(Len(x) - 1) : x[k + 1] - x[k] >= 0

\* --------------------------------------------- the chunked reader (spec 5, 6)

\* The reader extends a chunk forward until the event_number of its last row
\* is fully consumed.
RECURSIVE ExtendStop(_, _)
ExtendStop(table, stop) ==
    IF stop < Len(table) /\ table[stop + 1].event_number = table[stop].event_number
    THEN ExtendStop(table, stop + 1)
    ELSE stop

\* A chunk of chunk_size rows at most, cut wherever that falls.
ChunkStopFixed(table, start, chunk_size) == Min2(start + chunk_size - 1, Len(table))

\* analysis_utils.data_aligned_at_events(table, chunk_size): the last row of
\* the chunk that starts at row start (start <= Len(table)).
ChunkStop(table, start, chunk_size) ==
    ExtendStop(table, Min2(start + chunk_size - 1, Len(table)))

ReadChunk(table, start, chunk_size) ==
    SubSeq(table, start, ChunkStop(table, start, chunk_size))

\* ------------------------------------------------------ generate_pixel_mask

\* The index pairs of an array of shape n_pixel.
Indices(n_pixel) == (0..(n_pixel[1] - 1)) \X (0..(n_pixel[2] - 1))

\* analysis_utils.hist_2d_index(col - 1, row - 1, shape=n_pixel)
Hist2dIndex(hits, n_pixel) ==
    [ix \in Indices(n_pixel) |->
        Cardinality({k \in 1..Len(hits) :
            hits[k].column - 1 = ix[1] /\ hits[k].row - 1 = ix[2]})]

\* Python's None, for a local that otherwise holds an array.
NoneValue == [isNone |-> TRUE]

\* An accumulation that keeps the histogram of the latest chunk only.
AccumulateLast(occ, chunk_occ) == [isNone |-> FALSE, a |-> chunk_occ]

\* Lines 61-64: the first chunk's histogram, or the sum so far plus this one.
Accumulate(occ, chunk_occ) ==
    IF occ.isNone THEN [isNone |-> FALSE, a |-> chunk_occ]
    ELSE [isNone |-> FALSE, a |-> [ix \in DOMAIN chunk_occ |-> occ.a[ix] + chunk_occ[ix]]]

\* The value a filter reads at index ix: cval = 0 past the edges (mode='constant').
PaddedAt(a, ix) == IF ix \in DOMAIN a THEN a[ix] ELSE 0

\* The footprint's offsets, size[1] * size[2] of them, row by row: along an
\* axis of size s they run from -(s \div 2) to s - (s \div 2) - 1, as scipy
\* centres the footprint at s \div 2.
Footprint(size) ==
    [k \in 1..(size[1] * size[2]) |->
        <<(0 - (size[1] \div 2)) + ((k - 1) \div size[2]),
          (0 - (size[2] \div 2)) + ((k - 1) % size[2])>>]

\* The footprint's values around ix.
Window(a, offs, ix) ==
    [k \in 1..Len(offs) |-> PaddedAt(a, <<ix[1] + offs[k][1], ix[2] + offs[k][2]>>)]

\* median_filter(a, size=filter_size, mode='constant', cval=0.0): the element of
\* rank n \div 2 (from 0) of the sorted footprint.
MedianFilter(a, size) ==
    LET offs == Footprint(size)
    IN [ix \in DOMAIN a |->
          LET w == SortSeq(Window(a, offs, ix), LAMBDA x, y : x < y)
          IN w[(Len(w) \div 2) + 1]]

\* Line 69: occupancy - blurred.
Difference(a, size) ==
    LET blurred == MedianFilter(a, size) IN [ix \in DOMAIN a |-> a[ix] - blurred[ix]]

\* np.ma.std(difference) squared, times N^3 (N the number of pixels): the sum
\* of squared deviations from the mean, (d - S/N)^2 = (N d - S)^2 / N^2.
VarTimesN3(d) ==
    LET N == Cardinality(DOMAIN d)
        S == SumOver(d, DOMAIN d)
        dev2 == [ix \in DOMAIN d |-> (N * d[ix] - S) * (N * d[ix] - S)]
    IN SumOver(dev2, DOMAIN d)

\* x < threshold * std: the comparison turned around.
AboveThresholdBelow(x, N, varN3, threshold) ==
    LET lhs == x * x * N * N * N
        rhs == threshold * threshold * varN3
    IN IF threshold >= 0 THEN x < 0 \/ lhs < rhs
       ELSE x < 0 /\ lhs > rhs

\* x >= threshold * std, for std^2 = varN3 / N^3: the comparison with its
\* boundary included.
AboveThresholdGe(x, N, varN3, threshold) ==
    LET lhs == x * x * N * N * N
        rhs == threshold * threshold * varN3
    IN IF threshold >= 0 THEN x >= 0 /\ lhs >= rhs
       ELSE x >= 0 \/ lhs <= rhs

\* Lines 70-72: difference > abs_occ_threshold, abs_occ_threshold =
\* threshold * std, over the reals: x > threshold * std for std^2 = varN3 / N^3.
\* Both sides are squared where they have the same sign.
AboveThreshold(x, N, varN3, threshold) ==
    LET lhs == x * x * N * N * N
        rhs == threshold * threshold * varN3
    IN IF threshold >= 0 THEN x > 0 /\ lhs > rhs
       ELSE x > 0 \/ (x = 0 /\ rhs > 0) \/ (x < 0 /\ lhs < rhs)

\* Lines 67-75: noisy_pixels_mask.
NoisyPixelsMask(a, size, threshold) ==
    LET N == Cardinality(DOMAIN a)
        Flags(d, varN3) == [ix \in DOMAIN a |-> AboveThreshold(d[ix], N, varN3, threshold)]
    IN Only({Flags(p[1], p[2]) :
                p \in {<<d, VarTimesN3(d)>> : d \in {Difference(a, size)}}})

\* The arguments generate_pixel_mask runs with: those of the call, or those
\* remove_noisy_pixels calls it with at line 124.
GpmArgs ==
    IF call.fn = "remove_noisy_pixels"
    THEN [input_hits_file |-> call.input_hits_file, n_pixel |-> call.n_pixel,
          pixel_mask_name |-> DisabledPixelMask, output_mask_file |-> None,
          threshold |-> call.threshold, filter_size |-> call.filter_size,
          chunk_size |-> call.chunk_size]
    ELSE call

\* generate_pixel_mask runs as the call itself or inside remove_noisy_pixels.
GpmRuns == call.fn \in {"generate_pixel_mask", "remove_noisy_pixels"}

\* Lines 52-57: the default output path, and the input opened for reading.
GpmStart ==
    /\ GpmRuns
    /\ pc = (IF call.fn = "remove_noisy_pixels" THEN "gpm_start" ELSE "start")
    /\ output_file' = IF GpmArgs.output_mask_file = None
                      THEN DefaultMaskFile(GpmArgs.input_hits_file, GpmArgs.pixel_mask_name)
                      ELSE GpmArgs.output_mask_file
    /\ occupancy' = NoneValue
    /\ opened' = opened \cup {<<GpmArgs.input_hits_file, "r">>}
    /\ pos' = 1
    /\ pc' = "gpm_reading"
    /\ UNCHANGED <<run, driver, widget, files, files0, call, output_hits_file, pixel_mask, disabled_pixels,
                   noisy_pixels, chunks, cluster_hits, err>>

\* Lines 58-64: one chunk of the Hits table added to the occupancy.
GpmChunk ==
    /\ GpmRuns
    /\ pc = "gpm_reading"
    /\ LET table == files[GpmArgs.input_hits_file].Hits
       IN /\ pos <= Len(table)
          /\ occupancy' = Accumulate(occupancy,
                 Hist2dIndex(ReadChunk(table, pos, GpmArgs.chunk_size), GpmArgs.n_pixel))
          /\ chunks' = Append(chunks, ReadChunk(table, pos, GpmArgs.chunk_size))
          /\ pos' = ChunkStop(table, pos, GpmArgs.chunk_size) + 1
    /\ UNCHANGED <<run, driver, widget, files, files0, call, pc, output_hits_file, pixel_mask, disabled_pixels,
                   noisy_pixels, cluster_hits, output_file, opened, err>>

\* Line 67 when the reader yielded no chunk: occupancy is still None and
\* occupancy.astype raises AttributeError, which nothing catches.
GpmRaise ==
    /\ GpmRuns
    /\ pc = "gpm_reading"
    /\ pos > Len(files[GpmArgs.input_hits_file].Hits)
    /\ occupancy.isNone
    /\ err' = "AttributeError"
    /\ pc' = "raised"
    /\ UNCHANGED <<run, driver, widget, files, files0, call, pos, occupancy, output_hits_file, pixel_mask,
                   disabled_pixels, noisy_pixels, chunks, cluster_hits, output_file,
                   opened>>

\* The file generate_pixel_mask writes (lines 77-84): HistOcc and the mask.
MaskFile(a, name, mask) == [HistOcc |-> a, Masks |-> (name :> mask)]

\* A write that leaves a file already at the output path as it is.
GpmWriteKeep ==
    /\ GpmRuns
    /\ pc = "gpm_reading"
    /\ pos > Len(files[GpmArgs.input_hits_file].Hits)
    /\ ~occupancy.isNone
    /\ LET mask == NoisyPixelsMask(occupancy.a, GpmArgs.filter_size, GpmArgs.threshold)
       IN files' = files @@
                      (output_file :> MaskFile(occupancy.a, GpmArgs.pixel_mask_name, mask))
    /\ opened' = opened \cup {<<output_file, "w">>}
    /\ pc' = (IF call.fn = "remove_noisy_pixels" THEN "gpm_done" ELSE "done")
    /\ UNCHANGED <<run, driver, widget, files0, call, pos, occupancy, output_hits_file,
                   pixel_mask, disabled_pixels, noisy_pixels, chunks, cluster_hits,
                   output_file, err>>

\* Lines 67-89: the mask computed and the output file written, replacing
\* whatever the path held (mode 'w'); output_mask_file is returned.
GpmWrite ==
    /\ GpmRuns
    /\ pc = "gpm_reading"
    /\ pos > Len(files[GpmArgs.input_hits_file].Hits)
    /\ ~occupancy.isNone
    /\ LET mask == NoisyPixelsMask(occupancy.a, GpmArgs.filter_size, GpmArgs.threshold)
       IN files' = (output_file :> MaskFile(occupancy.a, GpmArgs.pixel_mask_name, mask))
                      @@ files
    /\ opened' = opened \cup {<<output_file, "w">>}
    /\ pc' = (IF call.fn = "remove_noisy_pixels" THEN "gpm_done" ELSE "done")
    /\ UNCHANGED <<run, driver, widget, files0, call, pos, occupancy, output_hits_file, pixel_mask,
                   disabled_pixels, noisy_pixels, chunks, cluster_hits, output_file, err>>

\* ---------------------------------------------------- remove_noisy_pixels

\* remove_noisy_pixels' output path when output_hits_file is None (line 121).
DefaultNoisyPixelsFile(input_hits_file) ==
    SplitextRoot(input_hits_file)
        \o <<"_", "n", "o", "i", "s", "y", "_", "p", "i", "x", "e", "l", "s">> \o ExtH5

\* Lines 120-121: the default output path; generate_pixel_mask is called next.
RnpStart ==
    /\ call.fn = "remove_noisy_pixels"
    /\ pc = "start"
    /\ output_hits_file' = IF call.output_hits_file = None
                           THEN DefaultNoisyPixelsFile(call.input_hits_file)
                           ELSE call.output_hits_file
    /\ pc' = "gpm_start"
    /\ UNCHANGED <<run, driver, widget, files, files0, call, pos, occupancy, pixel_mask, disabled_pixels,
                   noisy_pixels, chunks, cluster_hits, output_file, opened, err>>

\* np.ravel_multi_index(ix, dims): the position of index pair ix in the
\* flattened array (indices inside dims).
RavelMultiIndex(ix, dims) == ix[1] * dims[2] + ix[2]

\* The flattened positions of the True entries taken as 1-based pixels:
\* entry (i, j) flattened as (i + 1, j + 1).
MaskedPixels1dOneBased(mask, n_pixel) ==
    {RavelMultiIndex(<<ix[1] + 1, ix[2] + 1>>, n_pixel) : ix \in {jx \in DOMAIN mask : mask[jx]}}

\* Lines 133-139: the flattened positions of the True entries of the mask,
\* the empty list when there is none.
MaskedPixels1d(mask, n_pixel) ==
    {RavelMultiIndex(ix, n_pixel) : ix \in {jx \in DOMAIN mask : mask[jx]}}

\* A selection without invert=True: the hits on the masked pixels are kept.
SelectNoisy(hits, masked_pixels_1d, n_pixel) ==
    SelectSeq(hits, LAMBDA h :
        RavelMultiIndex(<<h.column - 1, h.row - 1>>, n_pixel) \in masked_pixels_1d)

\* Lines 148-149: the hits of a chunk whose pixel is not one of the masked.
SelectNotNoisy(hits, masked_pixels_1d, n_pixel) ==
    SelectSeq(hits, LAMBDA h :
        RavelMultiIndex(<<h.column - 1, h.row - 1>>, n_pixel) \notin masked_pixels_1d)

\* Lines 126-145: the mask and the occupancy read back from the mask file,
\* the input opened for reading, the output opened with mode 'w' and given
\* an empty Hits table.
RnpRead ==
    /\ call.fn = "remove_noisy_pixels"
    /\ pc = "gpm_done"
    /\ pixel_mask' = [isNone |-> FALSE, a |-> files[output_file].Masks[DisabledPixelMask]]
    /\ occupancy' = [isNone |-> FALSE, a |-> files[output_file].HistOcc]
    /\ opened' = opened \cup {<<output_file, "r">>, <<call.input_hits_file, "r">>,
                                <<output_hits_file, "w">>}
    /\ files' = (output_hits_file :> [Hits |-> <<>>]) @@ files
    /\ chunks' = <<>>
    /\ pos' = 1
    /\ pc' = "reading"
    /\ UNCHANGED <<run, driver, widget, files0, call, output_hits_file, disabled_pixels, noisy_pixels,
                   cluster_hits, output_file, err>>

\* A chunk step that drops the hits on the pixels noisy in the chunk itself:
\* the mask is computed from the occupancy of the chunk.
RnpChunkOwnMask ==
    /\ call.fn = "remove_noisy_pixels"
    /\ pc = "reading"
    /\ LET table == files[call.input_hits_file].Hits
       IN /\ pos <= Len(table)
          /\ \E hits \in {ReadChunk(table, pos, call.chunk_size)} :
                /\ files' = [files EXCEPT ![output_hits_file].Hits = @ \o
                       SelectNotNoisy(hits,
                           MaskedPixels1d(
                               NoisyPixelsMask(Hist2dIndex(hits, call.n_pixel),
                                               call.filter_size, call.threshold),
                               call.n_pixel),
                           call.n_pixel)]
                /\ chunks' = Append(chunks, hits)
          /\ pos' = ChunkStop(table, pos, call.chunk_size) + 1
    /\ UNCHANGED <<run, driver, widget, files0, call, pc, occupancy, output_hits_file,
                   pixel_mask, disabled_pixels, noisy_pixels, cluster_hits, output_file,
                   opened, err>>

\* Lines 146-150: one chunk read, its hits on masked pixels dropped, the
\* rest appended to the output Hits table.
RnpChunk ==
    /\ call.fn = "remove_noisy_pixels"
    /\ pc = "reading"
    /\ LET table == files[call.input_hits_file].Hits
       IN /\ pos <= Len(table)
          /\ \E hits \in {ReadChunk(table, pos, call.chunk_size)} :
                /\ files' = [files EXCEPT ![output_hits_file].Hits = @ \o
                       SelectNotNoisy(hits, MaskedPixels1d(pixel_mask.a, call.n_pixel),
                                      call.n_pixel)]
                /\ chunks' = Append(chunks, hits)
          /\ pos' = ChunkStop(table, pos, call.chunk_size) + 1
    /\ UNCHANGED <<run, driver, widget, files0, call, pc, occupancy, output_hits_file, pixel_mask,
                   disabled_pixels, noisy_pixels, cluster_hits, output_file, opened, err>>

\* Lines 152-162: the occupancy and the mask stored next to the Hits table
\* and output_hits_file returned.  (The ratio logged at line 152 divides
\* numpy integers, which warns and does not raise when no hit is left.)
RnpWrite ==
    /\ call.fn = "remove_noisy_pixels"
    /\ pc = "reading"
    /\ pos > Len(files[call.input_hits_file].Hits)
    /\ files' = [files EXCEPT ![output_hits_file] =
                    [Hits |-> @.Hits, HistOcc |-> occupancy.a,
                     Masks |-> (DisabledPixelMask :> pixel_mask.a)]]
    /\ pc' = "done"
    /\ UNCHANGED <<run, driver, widget, files0, call, pos, occupancy, output_hits_file, pixel_mask,
                   disabled_pixels, noisy_pixels, chunks, cluster_hits, output_file,
                   opened, err>>

\* ------------------------------------------- the clusterizer (spec 4.2)

\* Width of the unsigned 16-bit columns of the Cluster table.
U2 == 65536

\* A hit is excluded before clustering when its charge is outside
\* [min_hit_charge, max_hit_charge] (max_hit_charge None: no upper limit) or
\* its pixel is in a supplied mask; noisy and disabled are None or sets of
\* 1-based <<column, row>> pairs.
Survives(h, args, noisy, disabled) ==
    /\ h.charge >= args.min_hit_charge
    /\ args.max_hit_charge.isNone \/ h.charge <= args.max_hit_charge.v
    /\ noisy.isNone \/ <<h.column, h.row>> \notin noisy.px
    /\ disabled.isNone \/ <<h.column, h.row>> \notin disabled.px

\* Two hits are neighbours when each distance is within its threshold.
Adjacent(h1, h2, args) ==
    /\ Abs(h1.column - h2.column) <= args.column_cluster_distance
    /\ Abs(h1.row - h2.row) <= args.row_cluster_distance
    /\ Abs(h1.frame - h2.frame) <= args.frame_cluster_distance

\* The cluster grown from members: every free hit next to a member joins,
\* until none is left to join.
RECURSIVE Grow(_, _, _, _)
Grow(hits, members, free, args) ==
    LET add == {k \in free : \E m \in members : Adjacent(hits[m], hits[k], args)}
    IN IF add = {} THEN members
       ELSE Grow(hits, members \cup add, free \ add, args)

\* The clusters of the hits with index in free, each a set of indices, in
\* the order of their first hits; a cluster takes hits of one event only.
RECURSIVE Components(_, _, _)
Components(hits, free, args) ==
    IF free = {} THEN <<>>
    ELSE LET i == CHOOSE k \in free : \A j \in free : k <= j
             ev == {k \in free : hits[k].event_number = hits[i].event_number}
             c == Grow(hits, {i}, ev \ {i}, args)
         IN <<c>> \o Components(hits, free \ c, args)

\* The seed of a cluster: its highest-charge hit, the first of them in the
\* table when several share that charge.
SeedOf(hits, c) ==
    CHOOSE k \in c :
        /\ \A j \in c : hits[j].charge <= hits[k].charge
        /\ \A j \in c : hits[j].charge = hits[k].charge => k <= j

\* The Cluster row of the n-th cluster of comps: ID counts the clusters of
\* the same event before it; the means are charge-weighted, kept as
\* numerator and denominator; the u2 columns wrap at 2^16.
ClusterRow(hits, comps, n) ==
    LET c == comps[n]
        first == CHOOSE k \in c : \A j \in c : k <= j
        e == hits[first].event_number
        seed == SeedOf(hits, c)
        q == [k \in c |-> hits[k].charge]
        qc == [k \in c |-> hits[k].charge * hits[k].column]
        qr == [k \in c |-> hits[k].charge * hits[k].row]
    IN [event_number |-> e,
        ID |-> Cardinality({m \in 1..(n - 1) :
                   \E k \in comps[m] : hits[k].event_number = e}) % U2,
        n_hits |-> Cardinality(c) % U2,
        charge |-> SumOver(q, c),
        seed_column |-> hits[seed].column % U2,
        seed_row |-> hits[seed].row % U2,
        mean_column |-> [num |-> SumOver(qc, c), den |-> SumOver(q, c)],
        mean_row |-> [num |-> SumOver(qr, c), den |-> SumOver(q, c)]]

\* HitClusterizer(...).cluster_hits(hits, noisy_pixels, disabled_pixels): the
\* hits with the ID of their cluster within the event (-1 for an excluded
\* hit), and the Cluster rows.
Clusterize(hits, args, noisy, disabled) ==
    LET alive == {k \in 1..Len(hits) : Survives(hits[k], args, noisy, disabled)}
        Result(comps, rows) ==
            [cluster_hits |-> [k \in 1..Len(hits) |->
                 [hit |-> hits[k],
                  cluster_ID |-> IF k \in alive
                                 THEN rows[CHOOSE n \in 1..Len(comps) : k \in comps[n]].ID
                                 ELSE 0 - 1]],
             cluster |-> rows]
    IN Only({Result(p[1], p[2]) :
                p \in {<<comps, [n \in 1..Len(comps) |-> ClusterRow(hits, comps, n)]>> :
                          comps \in {Components(hits, alive, args)}}})

\* ------------------------------------------------------------ cluster_hits

\* cluster_hits' output path when output_cluster_file is None (line 177).
DefaultClusterFile(input_hits_file) ==
    SplitextRoot(input_hits_file)
        \o <<"_", "c", "l", "u", "s", "t", "e", "r">> \o ExtH5

\* np.dstack(np.nonzero(mask))[0]: the 0-based index pairs of the True entries.
MaskedPixelsZeroBased(mask) ==
    [isNone |-> FALSE, px |-> {jx \in DOMAIN mask : mask[jx]}]

\* np.dstack(np.nonzero(mask))[0] + 1: the 1-based <<column, row>> pairs of
\* the True entries (lines 181, 187).
MaskedPixels(mask) ==
    [isNone |-> FALSE,
     px |-> {<<ix[1] + 1, ix[2] + 1>> : ix \in {jx \in DOMAIN mask : mask[jx]}}]

\* The clusterizer's arguments with the column and the row distance exchanged.
ClusterizerArgsSwapped(c) ==
    [column_cluster_distance |-> c.row_cluster_distance,
     row_cluster_distance |-> c.column_cluster_distance,
     frame_cluster_distance |-> c.frame_cluster_distance,
     min_hit_charge |-> c.min_hit_charge,
     max_hit_charge |-> c.max_hit_charge]

\* The arguments the clusterizer is constructed with (line 193).
ClusterizerArgs(c) ==
    [column_cluster_distance |-> c.column_cluster_distance,
     row_cluster_distance |-> c.row_cluster_distance,
     frame_cluster_distance |-> c.frame_cluster_distance,
     min_hit_charge |-> c.min_hit_charge,
     max_hit_charge |-> c.max_hit_charge]

\* A start that opens the output file to append (mode 'a'): a Cluster table
\* already in it is kept.
ChStartAppend ==
    /\ pc = "start"
    /\ call.fn = "cluster_hits"
    /\ LET out == IF call.output_cluster_file = None
                  THEN DefaultClusterFile(call.input_hits_file)
                  ELSE call.output_cluster_file
           dis == call.input_disabled_pixel_mask_file
           noi == call.input_noisy_pixel_mask_file
       IN /\ output_file' = out
          /\ disabled_pixels' = IF dis # None
                                THEN MaskedPixels(files[dis].Masks[DisabledPixelMask])
                                ELSE NoneValue
          /\ noisy_pixels' = IF noi # None
                             THEN MaskedPixels(files[noi].Masks[NoisyPixelMask])
                             ELSE NoneValue
          /\ opened' = opened
                \cup (IF dis # None THEN {<<dis, "r">>} ELSE {})
                \cup (IF noi # None THEN {<<noi, "r">>} ELSE {})
                \cup {<<call.input_hits_file, "r">>, <<out, "a">>}
          /\ files' = IF out \in DOMAIN files /\ files[out] # [Other |-> <<>>]
                      THEN files
                      ELSE (out :> [Cluster |-> <<>>]) @@ files
    /\ cluster_hits' = <<>>
    /\ pos' = 1
    /\ pc' = "reading"
    /\ UNCHANGED <<run, driver, widget, files0, call, occupancy, output_hits_file,
                   pixel_mask, chunks, err>>

\* Lines 176-204: the default output path, the masks read, the input opened
\* for reading and the output opened with mode 'w', which replaces whatever
\* the path held by a file with an empty Cluster table.
ChStart ==
    /\ pc = "start"
    /\ call.fn = "cluster_hits"
    /\ LET out == IF call.output_cluster_file = None
                  THEN DefaultClusterFile(call.input_hits_file)
                  ELSE call.output_cluster_file
           dis == call.input_disabled_pixel_mask_file
           noi == call.input_noisy_pixel_mask_file
       IN /\ output_file' = out
          /\ disabled_pixels' = IF dis # None
                                THEN MaskedPixels(files[dis].Masks[DisabledPixelMask])
                                ELSE NoneValue
          /\ noisy_pixels' = IF noi # None
                             THEN MaskedPixels(files[noi].Masks[NoisyPixelMask])
                             ELSE NoneValue
          /\ opened' = opened
                \cup (IF dis # None THEN {<<dis, "r">>} ELSE {})
                \cup (IF noi # None THEN {<<noi, "r">>} ELSE {})
                \cup {<<call.input_hits_file, "r">>, <<out, "w">>}
          /\ files' = (out :> [Cluster |-> <<>>]) @@ files
    /\ cluster_hits' = <<>>
    /\ pos' = 1
    /\ pc' = "reading"
    /\ UNCHANGED <<run, driver, widget, files0, call, occupancy, output_hits_file, pixel_mask, chunks, err>>

\* The chunk at the reader's position and what the clusterizer makes of it.
ChChunkHits == ReadChunk(files[call.input_hits_file].Hits, pos, call.chunk_size)

ChClustered == Clusterize(ChChunkHits, ClusterizerArgs(call), noisy_pixels, disabled_pixels)

\* Lines 207 and 210: the two checks made on a chunk.
ChChunkOk ==
    /\ NonDecreasing(EventNumbers(ChChunkHits))
    /\ NonDecreasing(EventNumbers(ChClustered.cluster))

\* A chunk step that stores the chunk's clusters in place of the table
\* instead of appending them to it.
ChChunkOverwrite ==
    /\ pc = "reading"
    /\ call.fn = "cluster_hits"
    /\ pos <= Len(files[call.input_hits_file].Hits)
    /\ ChChunkOk
    /\ chunks' = Append(chunks, ChChunkHits)
    /\ \E r \in {ChClustered} :
          /\ cluster_hits' = cluster_hits \o r.cluster_hits
          /\ files' = [files EXCEPT ![output_file].Cluster = r.cluster]
    /\ pos' = ChunkStop(files[call.input_hits_file].Hits, pos, call.chunk_size) + 1
    /\ UNCHANGED <<run, driver, widget, files0, call, pc, occupancy, output_hits_file, pixel_mask,
                   disabled_pixels, noisy_pixels, output_file, opened, err>>

\* Lines 206-212: one chunk read, checked, clustered and appended.
ChChunk ==
    /\ pc = "reading"
    /\ call.fn = "cluster_hits"
    /\ pos <= Len(files[call.input_hits_file].Hits)
    /\ ChChunkOk
    /\ chunks' = Append(chunks, ChChunkHits)
    /\ \E r \in {ChClustered} :
          /\ cluster_hits' = cluster_hits \o r.cluster_hits
          /\ files' = [files EXCEPT ![output_file].Cluster = @ \o r.cluster]
    /\ pos' = ChunkStop(files[call.input_hits_file].Hits, pos, call.chunk_size) + 1
    /\ UNCHANGED <<run, driver, widget, files0, call, pc, occupancy, output_hits_file, pixel_mask,
                   disabled_pixels, noisy_pixels, output_file, opened, err>>

\* Lines 208 and 211: a check fails and RuntimeError leaves the function;
\* the with blocks close both files as they are.
ChRaise ==
    /\ pc = "reading"
    /\ call.fn = "cluster_hits"
    /\ pos <= Len(files[call.input_hits_file].Hits)
    /\ ~ChChunkOk
    /\ chunks' = Append(chunks, ChChunkHits)
    /\ err' = "RuntimeError"
    /\ pc' = "raised"
    /\ UNCHANGED <<run, driver, widget, files, files0, call, pos, occupancy, output_hits_file, pixel_mask,
                   disabled_pixels, noisy_pixels, cluster_hits, output_file, opened>>

\* Lines 214-217: the reader is exhausted and output_cluster_file is returned.
ChDone ==
    /\ pc = "reading"
    /\ call.fn = "cluster_hits"
    /\ pos > Len(files[call.input_hits_file].Hits)
    /\ pc' = "done"
    /\ UNCHANGED <<run, driver, widget, files, files0, call, pos, occupancy, output_hits_file, pixel_mask,
                   disabled_pixels, noisy_pixels, chunks, cluster_hits, output_file,
                   opened, err>>

\* -------------------------------------------------- inputs of the mask runs

HitsFileA == <<"a", ".", "h", "5">>

\* The event numbers the Hits tables explored draw from.
EventValues == {1, 2}

\* n_pixel of the mask runs: 3 columns, 2 rows.
MaskNPixel == <<3, 2>>

\* threshold values explored (-1.0, 0.0 and 2.0).
Thresholds == {0 - 1, 0, 2}

\* filter_size values explored: the default 3 (3 x 3) and the tuple (3, 1).
FilterSizes == {<<3, 3>>, <<3, 1>>}

SeqsUpTo(S, n) == UNION {[1..k -> S] : k \in 0..n}

\* The pixels hit in the mask runs, as <<column, row>>: two neighbouring
\* columns of row 1 and the second of them in row 2.
MaskHitPixels == {<<1, 1>>, <<2, 1>>, <<2, 2>>}

\* Hits tables of the mask runs: any hits on these pixels, event_number
\* non-decreasing (charge and frame are not read by generate_pixel_mask).
MaskStreams ==
    LET H == {Hit(e, px[1], px[2], 1, 0) : e \in EventValues, px \in MaskHitPixels}
    IN {s \in SeqsUpTo(H, MaxHits) : NonDecreasing(EventNumbers(s))}

\* The first run of a call: no run before it.
FirstRun == [n |-> 1, previous |-> NoneValue]

\* No driver script is running; no option widget is built.
NoDriver == [script |-> "none"]

NoWidget == [cls |-> "none"]

\* Before the call: no local is set, no file is open.
InitCallLocals ==
    /\ pc = "start"
    /\ pos = 1
    /\ occupancy = NoneValue
    /\ output_hits_file = None
    /\ pixel_mask = NoneValue
    /\ disabled_pixels = NoneValue
    /\ noisy_pixels = NoneValue
    /\ chunks = <<>>
    /\ cluster_hits = <<>>
    /\ output_file = None
    /\ opened = {}
    /\ err = "none"

\* One call of a function of hit_analysis.py, made once, by no script.
InitLocals ==
    /\ InitCallLocals
    /\ run = FirstRun
    /\ driver = NoDriver
    /\ widget = NoWidget

InitMask ==
    /\ \E s \in MaskStreams : files = (HitsFileA :> [Hits |-> s])
    /\ files0 = files
    /\ \E t \in Thresholds, fs \in FilterSizes, cs \in 1..MaxChunk :
          call = [fn |-> "generate_pixel_mask", input_hits_file |-> HitsFileA,
                  n_pixel |-> MaskNPixel, pixel_mask_name |-> NoisyPixelMask,
                  output_mask_file |-> None, threshold |-> t, filter_size |-> fs,
                  chunk_size |-> cs]
    /\ InitLocals

NextMask == GpmStart \/ GpmChunk \/ GpmRaise \/ GpmWrite

SpecMask == InitMask /\ [][NextMask]_vars

\* ----------------------------------------------- inputs of the cluster runs

NoisyFileA == <<"a", "_", "n", ".", "h", "5">>

DisabledFileA == <<"a", "_", "d", ".", "h", "5">>

\* The hits the Hits tables of the cluster runs draw from, as
\* <<column, row, frame, charge>>: three neighbouring columns of row 1 (the
\* middle one with the highest charge, the last with none), a hit one row
\* up, and a hit on the middle pixel one frame later.
ClusterHitShapes ==
    {<<1, 1, 0, 1>>, <<2, 1, 0, 3>>, <<3, 1, 0, 0>>, <<1, 2, 0, 2>>, <<2, 1, 1, 1>>}

\* Hits tables of the cluster runs: event_number non-decreasing, and every
\* table of up to two rows in any order.
ClusterStreams ==
    LET H == {Hit(e, sh[1], sh[2], sh[4], sh[3]) : e \in EventValues, sh \in ClusterHitShapes}
    IN {s \in SeqsUpTo(H, MaxHits) : NonDecreasing(EventNumbers(s)) \/ Len(s) <= 2}

\* The clustering arguments explored: the defaults, and distances that
\* differ per axis with a charge window.
ClusterArgChoices ==
    {[column_cluster_distance |-> 1, row_cluster_distance |-> 1,
      frame_cluster_distance |-> 1, min_hit_charge |-> 0,
      max_hit_charge |-> NoneValue],
     [column_cluster_distance |-> 1, row_cluster_distance |-> 0,
      frame_cluster_distance |-> 0, min_hit_charge |-> 1,
      max_hit_charge |-> [isNone |-> FALSE, v |-> 2]]}

\* The mask files of the cluster runs: pixel (2, 1) noisy, pixel (1, 2) disabled.
NoisyMaskArray == [ix \in Indices(MaskNPixel) |-> ix = <<1, 0>>]

DisabledMaskArray == [ix \in Indices(MaskNPixel) |-> ix = <<0, 1>>]

ZeroArray == [ix \in Indices(MaskNPixel) |-> 0]

\* Whether the call names both mask files or none.
MaskFileChoices == {<<None, None>>, <<NoisyFileA, DisabledFileA>>}

InitCluster ==
    /\ \E s \in ClusterStreams :
          files = (HitsFileA :> [Hits |-> s])
               @@ (NoisyFileA :> MaskFile(ZeroArray, NoisyPixelMask, NoisyMaskArray))
               @@ (DisabledFileA :> MaskFile(ZeroArray, DisabledPixelMask, DisabledMaskArray))
    /\ files0 = files
    /\ \E a \in ClusterArgChoices, m \in MaskFileChoices, cs \in 1..MaxChunk :
          call = [fn |-> "cluster_hits", input_hits_file |-> HitsFileA,
                  output_cluster_file |-> None,
                  input_noisy_pixel_mask_file |-> m[1],
                  input_disabled_pixel_mask_file |-> m[2],
                  column_cluster_distance |-> a.column_cluster_distance,
                  row_cluster_distance |-> a.row_cluster_distance,
                  frame_cluster_distance |-> a.frame_cluster_distance,
                  min_hit_charge |-> a.min_hit_charge,
                  max_hit_charge |-> a.max_hit_charge,
                  chunk_size |-> cs]
    /\ InitLocals

NextCluster == ChStart \/ ChChunk \/ ChRaise \/ ChDone

SpecCluster == InitCluster /\ [][NextCluster]_vars

\* --------------------------------------- inputs of the event-order runs

StreamEventValues == {1, 2, 3}

\* Hits tables of the event-order runs: hits on one pixel, their event
\* numbers in any order.
StreamTables == SeqsUpTo({Hit(e, 1, 1, 1, 0) : e \in StreamEventValues}, MaxStreamHits)

\* The three functions called with their default arguments but chunk_size.
StreamCalls ==
    {[fn |-> "remove_noisy_pixels", input_hits_file |-> HitsFileA,
      n_pixel |-> MaskNPixel, output_hits_file |-> None,
      threshold |-> 10, filter_size |-> <<3, 3>>,
      chunk_size |-> cs] : cs \in 1..MaxChunk}
    \cup
    {[fn |-> "generate_pixel_mask", input_hits_file |-> HitsFileA,
      n_pixel |-> MaskNPixel, pixel_mask_name |-> NoisyPixelMask,
      output_mask_file |-> None, threshold |-> 10, filter_size |-> <<3, 3>>,
      chunk_size |-> cs] : cs \in 1..MaxChunk}
    \cup
    {[fn |-> "cluster_hits", input_hits_file |-> HitsFileA,
      output_cluster_file |-> None,
      input_noisy_pixel_mask_file |-> None,
      input_disabled_pixel_mask_file |-> None,
      column_cluster_distance |-> 1, row_cluster_distance |-> 1,
      frame_cluster_distance |-> 1, min_hit_charge |-> 0,
      max_hit_charge |-> NoneValue,
      chunk_size |-> cs] : cs \in 1..MaxChunk}

Init ==
    /\ \E s \in StreamTables : files = (HitsFileA :> [Hits |-> s])
    /\ files0 = files
    /\ call \in StreamCalls
    /\ InitLocals

Next ==
    \/ GpmStart
    \/ GpmChunk
    \/ GpmRaise
    \/ GpmWrite
    \/ RnpStart
    \/ RnpRead
    \/ RnpChunk
    \/ RnpWrite
    \/ ChStart
    \/ ChChunk
    \/ ChRaise
    \/ ChDone

Spec == Init /\ [][Next]_vars

\* ------------------------------------------- inputs of the file-path runs

\* Input paths: with an extension, without one, a name that starts with a
\* dot, and a dot in the directory only.
FilesHitsPaths == {HitsFileA, <<"a">>, <<".", "h", "5">>, <<"d", ".", "x", "/", "a">>}

\* Mask names: the two the package uses and one without an upper-case letter.
FilesMaskNames == {NoisyPixelMask, DisabledPixelMask, <<"m", "a", "s", "k">>}

FilesTables ==
    {<<>>, <<Hit(1, 1, 1, 1, 0)>>, <<Hit(2, 1, 1, 1, 0), Hit(1, 2, 1, 1, 0)>>}

\* The noisy-mask paths a cluster_hits call on path may name: none, a file of
\* its own, or a file named like a cluster file.
FilesNoisyPaths(path) == {None, NoisyFileA, DefaultClusterFile(path)}

FilesDisabledPaths == {None, DisabledFileA}

FilesCalls ==
    {[fn |-> "remove_noisy_pixels", input_hits_file |-> path,
      n_pixel |-> MaskNPixel, output_hits_file |-> None,
      threshold |-> 10, filter_size |-> <<3, 3>>,
      chunk_size |-> cs] : path \in FilesHitsPaths, cs \in 1..MaxChunk}
    \cup
    {[fn |-> "generate_pixel_mask", input_hits_file |-> path,
      n_pixel |-> MaskNPixel, pixel_mask_name |-> name,
      output_mask_file |-> None, threshold |-> 10, filter_size |-> <<3, 3>>,
      chunk_size |-> cs] :
        path \in FilesHitsPaths, name \in FilesMaskNames, cs \in 1..MaxChunk}
    \cup
    UNION {
      {[fn |-> "cluster_hits", input_hits_file |-> path,
        output_cluster_file |-> None,
        input_noisy_pixel_mask_file |-> noi,
        input_disabled_pixel_mask_file |-> dis,
        column_cluster_distance |-> 1, row_cluster_distance |-> 1,
        frame_cluster_distance |-> 1, min_hit_charge |-> 0,
        max_hit_charge |-> NoneValue,
        chunk_size |-> cs] :
          noi \in FilesNoisyPaths(path), dis \in FilesDisabledPaths, cs \in 1..MaxChunk}
      : path \in FilesHitsPaths}

\* The paths a call reads its inputs from.
InputPaths(c) ==
    {c.input_hits_file}
        \cup (IF c.fn = "cluster_hits"
              THEN {c.input_noisy_pixel_mask_file, c.input_disabled_pixel_mask_file} \ {None}
              ELSE {})

\* The files at the input paths of call c, its Hits table being s.
FilesFor(c, s) ==
    [p \in InputPaths(c) |->
        IF p = c.input_hits_file THEN [Hits |-> s]
        ELSE IF p = DisabledFileA
             THEN MaskFile(ZeroArray, DisabledPixelMask, DisabledMaskArray)
             ELSE MaskFile(ZeroArray, NoisyPixelMask, NoisyMaskArray)]

InitFiles ==
    /\ call \in FilesCalls
    /\ \E s \in FilesTables : files = FilesFor(call, s)
    /\ files0 = files
    /\ InitLocals

SpecFiles == InitFiles /\ [][Next]_vars

\* ------------------------------------------------- a call made a second time

\* Most runs of one call explored.
MaxRuns == 2

\* A file that none of the functions writes.
OtherFile == [Other |-> <<>>]

\* What the output path can hold when the call is made again: what the run
\* before left there, any other file, or nothing.
BetweenRuns ==
    {files, (output_file :> OtherFile) @@ files,
     [p \in DOMAIN files \ {output_file} |-> files[p]]}

\* The file at the output path, None when there is none.
OutputLeft ==
    IF output_file \in DOMAIN files
    THEN [isNone |-> FALSE, f |-> files[output_file]]
    ELSE NoneValue

\* The caller makes the same call again, with the same arguments, after the
\* call returned or raised (a stage re-executed): the locals are those of a
\* new call.
Rerun ==
    /\ pc \in {"done", "raised"}
    /\ run.n < MaxRuns
    /\ run' = [n |-> run.n + 1, previous |-> OutputLeft]
    /\ \E f \in BetweenRuns : files' = f /\ files0' = f
    /\ pc' = "start"
    /\ pos' = 1
    /\ occupancy' = NoneValue
    /\ output_hits_file' = None
    /\ pixel_mask' = NoneValue
    /\ disabled_pixels' = NoneValue
    /\ noisy_pixels' = NoneValue
    /\ chunks' = <<>>
    /\ cluster_hits' = <<>>
    /\ output_file' = None
    /\ opened' = {}
    /\ err' = "none"
    /\ UNCHANGED <<call, driver, widget>>

\* The calls that are run again: both functions, read in chunks of the
\* largest chunk size explored, the masks with the 3 x 3 filter.
InitRerun ==
    /\ InitMask \/ InitCluster
    /\ call.chunk_size = MaxChunk
    /\ call.fn = "generate_pixel_mask" => call.filter_size = <<3, 3>>

NextRerun ==
    \/ GpmStart
    \/ GpmChunk
    \/ GpmRaise
    \/ GpmWrite
    \/ ChStart
    \/ ChChunk
    \/ ChRaise
    \/ ChDone
    \/ Rerun

SpecRerun == InitRerun /\ [][NextRerun]_vars

\* ------------------------------------------------------- the example scripts

\* Most DUTs (data files) of a script run explored.
MaxDuts == 2

Duts == 1..MaxDuts

\* The variables of one call of a function of hit_analysis.py.
callVars == <<files, files0, call, pc, pos, occupancy, output_hits_file, pixel_mask,
              disabled_pixels, noisy_pixels, chunks, cluster_hits, output_file, opened,
              err, run>>

\* No function of hit_analysis.py is called in the script's own process.
NoCall ==
    /\ files = <<>>
    /\ files0 = <<>>
    /\ call = [fn |-> "none"]
    /\ run = FirstRun
    /\ InitCallLocals

\* data_files[i - 1] (eutelescope line 30, fei4 lines 12-14), the names
\* shortened to d1.h5, d2.h5, ...
DataFile(i) == <<"d", <<"1", "2", "3", "4", "5", "6">>[i]>> \o ExtH5

\* One statement of a script: its line, what it does (apply_async, get,
\* join, map, map_get or call), the function, and the list it passes.
Step(line, op, fn, arg) == [line |-> line, op |-> op, fn |-> fn, arg |-> arg]

\* eutelescope_example.py, lines 53-116, the plot calls left out.
Eutelescope ==
    <<Step(60, "apply_async", "remove_noisy_pixels", "data_files"),
      Step(61, "get", "remove_noisy_pixels", "multiple_results"),
      Step(71, "apply_async", "cluster_hits", "noisy_pixels_files"),
      Step(74, "join", "cluster_hits", "pool"),
      Step(75, "get", "cluster_hits", "multiple_results"),
      Step(78, "call", "correlate_hits", "noisy_pixels_files"),
      Step(85, "call", "coarse_alignment", "Correlation"),
      Step(91, "call", "merge_cluster_data", "noisy_pixels_cluster_files"),
      Step(97, "call", "find_tracks", "Tracklets"),
      Step(102, "call", "fit_tracks", "TrackCandidates"),
      Step(112, "call", "calculate_residuals", "Tracks")>>

\* fei4_telescope_jens.py, lines 26-58, the plot calls left out.  Pool().map
\* is the submission of one job per data file and the wait for the result.
Fei4 ==
    <<Step(27, "call", "correlate_hits", "data_files"),
      Step(31, "call", "align_hits", "Alignment"),
      Step(34, "map", "cluster_hits", "data_files"),
      Step(34, "map_get", "cluster_hits", "data_files"),
      Step(38, "call", "merge_cluster_data", "cluster_files"),
      Step(40, "call", "optimize_hit_alignment", "Tracklets"),
      Step(46, "call", "find_tracks", "Tracklets"),
      Step(49, "call", "align_z", "TrackCandidates"),
      Step(52, "call", "fit_tracks", "TrackCandidates"),
      Step(58, "call", "calculate_residuals", "Tracks")>>

Script(name) ==
    CASE name = "eutelescope" -> Eutelescope
      [] name = "fei4" -> Fei4
      [] OTHER -> <<>>

\* The keyword arguments a script passes to a per-DUT function: lines 54-58
\* and 64-70 of eutelescope_example.py; the one positional argument of map.
Kwargs(script, fn) ==
    CASE script = "eutelescope" /\ fn = "remove_noisy_pixels" ->
            {"input_hits_file", "n_pixel", "pixel_size", "dut_name"}
      [] script = "eutelescope" /\ fn = "cluster_hits" ->
            {"input_hits_file", "max_x_distance", "max_y_distance",
             "max_time_distance", "max_cluster_hits", "dut_name"}
      [] OTHER -> {"input_hits_file"}

\* The parameters of the functions of hit_analysis.py (lines 18, 92, 165).
Parameters(fn) ==
    CASE fn = "generate_pixel_mask" ->
            {"input_hits_file", "n_pixel", "pixel_mask_name", "output_mask_file",
             "pixel_size", "threshold", "filter_size", "dut_name", "plot", "chunk_size"}
      [] fn = "remove_noisy_pixels" ->
            {"input_hits_file", "n_pixel", "output_hits_file", "pixel_size",
             "threshold", "filter_size", "dut_name", "plot", "chunk_size"}
      [] fn = "cluster_hits" ->
            {"input_hits_file", "output_cluster_file", "input_disabled_pixel_mask_file",
             "input_noisy_pixel_mask_file", "min_hit_charge", "max_hit_charge",
             "column_cluster_distance", "row_cluster_distance",
             "frame_cluster_distance", "dut_name", "plot", "chunk_size"}

\* A task in the pool's queue.
Job(fn, dut, input, kwargs) ==
    [fn |-> fn, dut |-> dut, input |-> input, kwargs |-> kwargs, pc |-> "queued",
     err |-> "none", returned |-> None]

\* A file of the script's file system: its node, its Hits rows (none for
\* another node), whether it is complete, and the jobs that opened it with 'w'.
DriverFile(node, hits, st, writers) ==
    [node |-> node, hits |-> hits, st |-> st, writers |-> writers]

\* The file system after job i opened path p with mode 'w' and left it so.
Written(fs, p, node, hits, st, i) ==
    (p :> DriverFile(node, hits, st,
                     (IF p \in DOMAIN fs THEN fs[p].writers ELSE {}) \cup {i})) @@ fs

\* The Hits rows remove_noisy_pixels leaves of a table (lines 124-150): the
\* rows off the pixels masked for the occupancy of the whole table, with
\* the default threshold and filter_size.
RnpOutputHits(table, n_pixel) ==
    SelectNotNoisy(table,
        MaskedPixels1d(NoisyPixelsMask(Hist2dIndex(table, n_pixel), <<3, 3>>, 10), n_pixel),
        n_pixel)

\* The jobs that have not finished.
Unfinished == {"queued", "running", "masked", "writing"}

\* A pool worker takes a task and calls the function: TypeError for a
\* keyword that is no parameter; IOError when the input file cannot be
\* opened (lines 57, 191).
JobStart ==
    /\ \E i \in DOMAIN driver.jobs :
          /\ driver.jobs[i].pc = "queued"
          /\ driver' = [driver EXCEPT !.jobs[i] =
                IF ~(@.kwargs \subseteq Parameters(@.fn))
                THEN [@ EXCEPT !.pc = "raised", !.err = "TypeError"]
                ELSE IF @.input \notin DOMAIN driver.files
                     THEN [@ EXCEPT !.pc = "raised", !.err = "IOError"]
                     ELSE [@ EXCEPT !.pc = "running"]]
    /\ UNCHANGED <<callVars, widget>>

\* generate_pixel_mask, called itself or at line 124: AttributeError at
\* line 67 for a table without rows, else the mask file written (77-84).
JobMask ==
    /\ \E i \in DOMAIN driver.jobs :
          /\ driver.jobs[i].pc = "running"
          /\ driver.jobs[i].fn \in {"generate_pixel_mask", "remove_noisy_pixels"}
          /\ LET j == driver.jobs[i]
                 out == DefaultMaskFile(j.input,
                            IF j.fn = "remove_noisy_pixels" THEN DisabledPixelMask
                            ELSE NoisyPixelMask)
             IN driver' =
                  IF driver.files[j.input].hits = <<>>
                  THEN [driver EXCEPT !.jobs[i].pc = "raised",
                                      !.jobs[i].err = "AttributeError"]
                  ELSE [driver EXCEPT
                          !.files = Written(@, out, "Mask", <<>>, "complete", i),
                          !.jobs[i].pc = IF j.fn = "remove_noisy_pixels"
                                         THEN "masked" ELSE "done",
                          !.jobs[i].returned = IF j.fn = "remove_noisy_pixels"
                                               THEN None ELSE out]
    /\ UNCHANGED <<callVars, widget>>

\* Lines 143-145 and 192-204: the output file opened with mode 'w' and
\* given its empty table.
JobOpen ==
    /\ \E i \in DOMAIN driver.jobs :
          /\ driver.jobs[i].fn \in {"remove_noisy_pixels", "cluster_hits"}
          /\ driver.jobs[i].pc = (IF driver.jobs[i].fn = "remove_noisy_pixels"
                                  THEN "masked" ELSE "running")
          /\ LET j == driver.jobs[i]
             IN driver' = [driver EXCEPT
                  !.files = IF j.fn = "remove_noisy_pixels"
                            THEN Written(@, DefaultNoisyPixelsFile(j.input), "Hits",
                                         <<>>, "partial", i)
                            ELSE Written(@, DefaultClusterFile(j.input), "Cluster",
                                         <<>>, "partial", i),
                  !.jobs[i].pc = "writing"]
    /\ UNCHANGED <<callVars, widget>>

\* Lines 146-162 and 206-217: the rows written and the path returned; or
\* RuntimeError (lines 208, 211) with the Cluster table as far as it got.
\* With the default chunk_size the table is one chunk.
JobFinish ==
    /\ \E i \in DOMAIN driver.jobs :
          /\ driver.jobs[i].pc = "writing"
          /\ LET j == driver.jobs[i]
                 table == driver.files[j.input].hits
                 out == IF j.fn = "remove_noisy_pixels"
                        THEN DefaultNoisyPixelsFile(j.input)
                        ELSE DefaultClusterFile(j.input)
             IN driver' =
                  IF j.fn = "cluster_hits" /\ ~NonDecreasing(EventNumbers(table))
                  THEN [driver EXCEPT !.jobs[i].pc = "raised",
                                      !.jobs[i].err = "RuntimeError"]
                  ELSE [driver EXCEPT
                          !.files[out] = [@ EXCEPT
                              !.hits = IF j.fn = "remove_noisy_pixels"
                                       THEN RnpOutputHits(table, MaskNPixel) ELSE <<>>,
                              !.st = "complete"],
                          !.jobs[i].pc = "done",
                          !.jobs[i].returned = out]
    /\ UNCHANGED <<callVars, widget>>

\* The statement the script is at, while it runs.
MainRuns == driver.exc = "none" /\ driver.ip <= Len(Script(driver.script))

MainStep == Script(driver.script)[driver.ip]

\* The job of function fn for DUT d.
JobOf(fn, d) ==
    CHOOSE i \in DOMAIN driver.jobs : driver.jobs[i].fn = fn /\ driver.jobs[i].dut = d

\* The input file of the job a statement submits for DUT d: data_files[d],
\* or noisy_pixels_files[d], the value remove_noisy_pixels returned (line 61).
SubmitInput(step, d) ==
    IF step.arg = "data_files" THEN DataFile(d)
    ELSE driver.jobs[JobOf("remove_noisy_pixels", d)].returned

\* pool.apply_async for every DUT (lines 60, 71) and the submission of
\* Pool().map (line 34): one task per DUT put in the queue.
MainSubmit ==
    /\ MainRuns
    /\ MainStep.op \in {"apply_async", "map"}
    /\ driver' = [driver EXCEPT
          !.jobs = @ \o [d \in Duts |->
                          Job(MainStep.fn, d, SubmitInput(MainStep, d),
                              Kwargs(driver.script, MainStep.fn))],
          !.ip = @ + 1]
    /\ UNCHANGED <<callVars, widget>>

\* res.get() of the next result in the list (lines 61, 75), the job done.
MainGet ==
    /\ MainRuns
    /\ MainStep.op = "get"
    /\ driver.jobs[JobOf(MainStep.fn, driver.got + 1)].pc = "done"
    /\ driver' = IF driver.got + 1 = MaxDuts
                 THEN [driver EXCEPT !.got = 0, !.ip = @ + 1]
                 ELSE [driver EXCEPT !.got = @ + 1]
    /\ UNCHANGED <<callVars, widget>>

\* The pool's workers are daemonic: when the script's process ends, the
\* workers that have not finished are terminated where they are.
Terminated(jobs) ==
    [i \in DOMAIN jobs |->
        IF jobs[i].pc \in Unfinished THEN [jobs[i] EXCEPT !.pc = "killed"] ELSE jobs[i]]

\* res.get() of a job that raised (lines 61, 75): the exception is raised
\* again in the script, nothing catches it, and the script ends.
MainGetRaise ==
    /\ MainRuns
    /\ MainStep.op = "get"
    /\ driver.jobs[JobOf(MainStep.fn, driver.got + 1)].pc = "raised"
    /\ driver' = [driver EXCEPT
          !.exc = driver.jobs[JobOf(MainStep.fn, driver.got + 1)].err,
          !.jobs = Terminated(@)]
    /\ UNCHANGED <<callVars, widget>>

\* pool.close(); pool.join() (lines 73-74): every worker has ended.
MainJoin ==
    /\ MainRuns
    /\ MainStep.op = "join"
    /\ \A i \in DOMAIN driver.jobs : driver.jobs[i].pc \notin Unfinished
    /\ driver' = [driver EXCEPT !.ip = @ + 1]
    /\ UNCHANGED <<callVars, widget>>

\* Pool().map returns (line 34): every job of the map is done.
MainMapReturn ==
    /\ MainRuns
    /\ MainStep.op = "map_get"
    /\ \A d \in Duts : driver.jobs[JobOf(MainStep.fn, d)].pc = "done"
    /\ driver' = [driver EXCEPT !.ip = @ + 1]
    /\ UNCHANGED <<callVars, widget>>

\* Pool().map raises (line 34) once a job of the map has raised, whatever
\* the other jobs are doing, and the script ends.
MainMapRaise ==
    /\ MainRuns
    /\ MainStep.op = "map_get"
    /\ \E d \in Duts :
          /\ driver.jobs[JobOf(MainStep.fn, d)].pc = "raised"
          /\ driver' = [driver EXCEPT
                !.exc = driver.jobs[JobOf(MainStep.fn, d)].err,
                !.jobs = Terminated(@)]
    /\ UNCHANGED <<callVars, widget>>

\* A function of all DUTs called in the script's own process (correlation,
\* alignment, merging, track finding, fitting, residuals), which returns.
MainCall ==
    /\ MainRuns
    /\ MainStep.op = "call"
    /\ driver' = [driver EXCEPT !.ip = @ + 1]
    /\ UNCHANGED <<callVars, widget>>

\* The data files of a run: for each DUT a Hits table, or no file.
DriverFileSystems ==
    {fs \in [{DataFile(d) : d \in Duts} ->
                {DriverFile("Hits", t, "complete", {}) : t \in FilesTables}
                    \cup {NoneValue}] : TRUE}

Present(fs) == [p \in {q \in DOMAIN fs : fs[q] # NoneValue} |-> fs[p]]

InitDriver ==
    /\ NoCall
    /\ widget = NoWidget
    /\ \E name \in {"eutelescope", "fei4"}, fs \in DriverFileSystems :
          driver = [script |-> name, ip |-> 1, got |-> 0, jobs |-> <<>>,
                    files |-> Present(fs), exc |-> "none"]

NextDriver ==
    \/ JobStart
    \/ JobMask
    \/ JobOpen
    \/ JobFinish
    \/ MainSubmit
    \/ MainGet
    \/ MainGetRaise
    \/ MainJoin
    \/ MainMapReturn
    \/ MainMapRaise
    \/ MainCall

SpecDriver == InitDriver /\ [][NextDriver]_vars

\* ------------------------------------------------ per-DUT jobs, one per file

\* Most jobs of a run explored.
MaxJobs == 2

\* The jobs of a run: each a function of hit_analysis.py called with its
\* default output path on an input hits file, the input files pairwise
\* different and present.
InitJobs ==
    /\ NoCall
    /\ widget = NoWidget
    /\ \E fns \in [1..MaxJobs -> {"generate_pixel_mask", "remove_noisy_pixels",
                                   "cluster_hits"}],
          paths \in [1..MaxJobs -> FilesHitsPaths], t \in FilesTables :
          /\ \A i, k \in 1..MaxJobs : i # k => paths[i] # paths[k]
          /\ driver = [script |-> "jobs", ip |-> 1, got |-> 0,
                       jobs |-> [i \in 1..MaxJobs |->
                                   Job(fns[i], i, paths[i], {"input_hits_file"})],
                       files |-> [p \in {paths[i] : i \in 1..MaxJobs} |->
                                    DriverFile("Hits", t, "complete", {})],
                       exc |-> "none"]

NextJobs ==
    \/ JobStart
    \/ JobMask
    \/ JobOpen
    \/ JobFinish

SpecJobs == InitJobs /\ [][NextJobs]_vars

\* ------------------------------------------ inputs of the noisy-pixel removal

\* remove_noisy_pixels on the tables of the mask runs, with the thresholds
\* 0.0 and 2.0, low enough for pixels of so small an array to be masked.
InitRemove ==
    /\ \E s \in MaskStreams : files = (HitsFileA :> [Hits |-> s])
    /\ files0 = files
    /\ \E t \in {0, 2}, cs \in {1, MaxChunk} :
          call = [fn |-> "remove_noisy_pixels", input_hits_file |-> HitsFileA,
                  n_pixel |-> MaskNPixel, output_hits_file |-> None,
                  threshold |-> t, filter_size |-> <<3, 3>>, chunk_size |-> cs]
    /\ InitLocals

NextRemove ==
    \/ GpmStart
    \/ GpmChunk
    \/ GpmRaise
    \/ GpmWrite
    \/ RnpStart
    \/ RnpRead
    \/ RnpChunk
    \/ RnpWrite

SpecRemove == InitRemove /\ [][NextRemove]_vars

\* --------------------------------------------------------- the option widgets

\* Python values are written as Python writes them (repr): "None", "nan",
\* "5", "'abc'", "True", "[1, 2]".  The multi widgets have two labels in one
\* dimension, no selection, and a name other than 'Align duts'.

\* The default values the optional widgets of each class are built with.
\* (OptionMultiSpinBox needs a number: line 659 computes default_value - 1.
\* The multi widgets with a list signal are given lists.)
WidgetDefaults(cls) ==
    CASE cls = "OptionSlider" -> {"None", "0", "5", "7"}
      [] cls = "OptionText" -> {"None", "''", "'abc'", "'x'"}
      [] cls = "OptionBool" -> {"None", "False", "True"}
      [] cls = "OptionMultiSlider" -> {"None", "[1, 2]", "[3, 7]"}
      [] cls = "OptionMultiCheckBox" -> {"None", "[0]", "[1]"}
      [] cls = "OptionMultiSpinBox" -> {"1"}

\* The values the user can give the widget: slider positions (a slider
\* writes its position into the edit), texts, the radio button, the boxes
\* checked, the spin box values.
WidgetValues(cls) ==
    CASE cls = "OptionSlider" -> {"0", "3", "7"}
      [] cls = "OptionText" -> {"''", "'x'", "'None'"}
      [] cls = "OptionBool" -> {"False", "True"}
      [] cls = "OptionMultiSlider" -> {"[0, 0]", "[1, 2]", "[3, 7]"}
      [] cls = "OptionMultiCheckBox" -> {"[]", "[0]", "[1]", "[0, 1]"}
      [] cls = "OptionMultiSpinBox" -> {"[0, 1]", "[1, 0]", "[1, 1]", "[1, 2]", "[2, 1]"}

\* not default_value.
Falsy(v) == v \in {"None", "''", "False", "0", "[]"}

\* _emit_value deactivated in place of every class's own: the value None.
EmitValueNone(w) ==
    [w EXCEPT !.emitted =
        IF w.readonly THEN "None" ELSE w.value]

\* _emit_value of each class (lines 85-94, 156-163, 233-240, 341-347,
\* 550-574 with 590-594, 724-748 with 764-768): the value valueChanged emits.
EmitValue(w) ==
    [w EXCEPT !.emitted =
        CASE w.cls = "OptionSlider" ->
                IF w.readonly \/ w.value = ""
                THEN (IF w.default_value = "None" THEN "nan" ELSE w.default_value)
                ELSE w.value
          [] w.cls \in {"OptionText", "OptionBool"} ->
                IF w.readonly
                THEN (IF w.default_value = "None" THEN "'None'" ELSE w.default_value)
                ELSE w.value
          [] w.cls = "OptionMultiSlider" ->
                IF ~w.readonly THEN w.value
                ELSE (IF w.default_value = "None" THEN "[None]" ELSE w.default_value)
          [] w.cls = "OptionMultiCheckBox" ->
                IF w.value = "[]" \/ w.readonly
                THEN (IF w.default_value = "None" THEN "[None]" ELSE w.default_value)
                ELSE w.value
          [] w.cls = "OptionMultiSpinBox" ->
                IF w.readonly
                THEN (IF w.default_value = "None" THEN "[None]" ELSE w.default_value)
                ELSE w.value]

\* __init__ with optional=True: the check box is unchecked; OptionText and
\* OptionBool are made read-only only for a default value that is not true
\* (lines 124-126, 198-200), the others always (lines 53, 320, 452, 674);
\* the edit, buttons and boxes show the default value.
Construct(cls, d) ==
    EmitValue(
        [cls |-> cls, default_value |-> d, checked |-> FALSE,
         readonly |-> IF cls \in {"OptionText", "OptionBool"} THEN Falsy(d) ELSE TRUE,
         value |-> CASE cls = "OptionSlider" -> (IF d = "None" THEN "" ELSE d)
                     [] cls = "OptionText" -> (IF d = "None" THEN "''" ELSE d)
                     [] cls = "OptionBool" -> (IF d = "True" THEN "True" ELSE "False")
                     [] cls = "OptionMultiSlider" -> (IF d = "None" THEN "[0, 0]" ELSE d)
                     [] cls = "OptionMultiCheckBox" -> (IF d = "None" THEN "[0, 1]" ELSE d)
                     [] cls = "OptionMultiSpinBox" -> "[1, 1]",
         emitted |-> "nothing"])

\* check_box.stateChanged: _set_readonly(v == 0), which emits the value.
WidgetToggle ==
    /\ widget' = EmitValue([widget EXCEPT !.checked = ~@, !.readonly = widget.checked])
    /\ UNCHANGED <<callVars, driver>>

\* The user moves a slider, types a text, clicks a radio button, a box or
\* a spin box: the edit of a read-only widget takes no input, its buttons
\* and boxes are disabled, its sliders still move; the change emits the value.
WidgetEdit ==
    /\ \E v \in WidgetValues(widget.cls) \ {widget.value} :
          /\ widget.readonly => widget.cls \in {"OptionSlider", "OptionMultiSlider"}
          /\ widget' = EmitValue([widget EXCEPT !.value = v])
    /\ UNCHANGED <<callVars, driver>>

InitWidget ==
    /\ NoCall
    /\ driver = NoDriver
    /\ \E cls \in {"OptionSlider", "OptionText", "OptionBool", "OptionMultiSlider",
                   "OptionMultiCheckBox", "OptionMultiSpinBox"} :
          \E d \in WidgetDefaults(cls) : widget = Construct(cls, d)

NextWidget == WidgetToggle \/ WidgetEdit

SpecWidget == InitWidget /\ [][NextWidget]_vars

\* ------------------------------------------------ clusters of many hits

\* The Cluster rows the clusterizer makes of a chunk that holds n copies of
\* the hit h: copies are in one event and at distance 0 of each other, so
\* they are one cluster; n_hits is stored in the u2 column of line 198.
RepeatedClusterRows(h, n, args) ==
    IF ~Survives(h, args, NoneValue, NoneValue) THEN <<>>
    ELSE <<[event_number |-> h.event_number,
            ID |-> 0,
            n_hits |-> n % U2,
            charge |-> n * h.charge,
            seed_column |-> h.column % U2,
            seed_row |-> h.row % U2,
            mean_column |-> [num |-> n * h.charge * h.column, den |-> n * h.charge],
            mean_row |-> [num |-> n * h.charge * h.row, den |-> n * h.charge]]>>

\* The numbers of rows of the repeated-hit tables: a few, and the numbers
\* around the range of the u2 column.
RepeatedCounts == {1, 2, 3, U2 - 1, U2, U2 + 1, 2 * U2}

\* cluster_hits (lines 165-217) on a Hits table that holds nrows copies of
\* one hit, written as [Repeated |-> hit, nrows |-> n]: the table is one
\* event, so the reader yields it as one chunk whatever chunk_size is; the
\* checks of lines 207 and 210 pass; its clusters are appended and the
\* output path is returned.
ChRepeated ==
    /\ pc = "start"
    /\ call.fn = "cluster_hits"
    /\ output_file' = DefaultClusterFile(call.input_hits_file)
    /\ opened' = {<<call.input_hits_file, "r">>, <<output_file', "w">>}
    /\ LET t == files[call.input_hits_file].Hits
       IN files' = (output_file' :>
                       [Cluster |-> RepeatedClusterRows(t.Repeated, t.nrows,
                                                        ClusterizerArgs(call))])
                   @@ files
    /\ pos' = files[call.input_hits_file].Hits.nrows + 1
    /\ pc' = "done"
    /\ UNCHANGED <<run, driver, widget, files0, call, occupancy, output_hits_file,
                   pixel_mask, disabled_pixels, noisy_pixels, chunks, cluster_hits, err>>

InitRepeated ==
    /\ \E e \in EventValues, sh \in ClusterHitShapes, n \in RepeatedCounts :
          files = (HitsFileA :> [Hits |-> [Repeated |-> Hit(e, sh[1], sh[2], sh[4], sh[3]),
                                           nrows |-> n]])
    /\ files0 = files
    /\ \E a \in ClusterArgChoices, cs \in 1..MaxChunk :
          call = [fn |-> "cluster_hits", input_hits_file |-> HitsFileA,
                  output_cluster_file |-> None,
                  input_noisy_pixel_mask_file |-> None,
                  input_disabled_pixel_mask_file |-> None,
                  column_cluster_distance |-> a.column_cluster_distance,
                  row_cluster_distance |-> a.row_cluster_distance,
                  frame_cluster_distance |-> a.frame_cluster_distance,
                  min_hit_charge |-> a.min_hit_charge,
                  max_hit_charge |-> a.max_hit_charge,
                  chunk_size |-> cs]
    /\ InitLocals

SpecRepeated == InitRepeated /\ [][ChRepeated]_vars

\* ------------------------------ tracklets, track candidates and tracks
\* (spec 4.5 - 4.7; dut_alignment and track_analysis are not among the
\* sources, the three stages are modelled from the specification)

\* The number of telescope planes of the tracking runs.
MaxPlanes == 4

\* The output file of a stage, in the scripts' output folder.
StageFile(stage) == <<stage>> \o ExtH5

\* A merger that joins on the events of the reference plane only: an event
\* without a cluster in plane 1 gives no Tracklet row.
MergeJoinReference(clusters, cur) ==
    LET RECURSIVE Rows(_)
        Rows(k) ==
            IF k > Len(clusters[1]) THEN <<>>
            ELSE IF k > 1 /\ clusters[1][k - 1].event_number = clusters[1][k].event_number
                 THEN Rows(k + 1)
            ELSE <<[event_number |-> clusters[1][k].event_number,
                    hits |-> [d \in DOMAIN clusters |->
                        LET s == SelectSeq(clusters[d], LAMBDA c :
                                     c.event_number = clusters[1][k].event_number)
                        IN [i \in 1..Len(s) |-> s[i].x + (IF d = 1 THEN 0 ELSE 1)]]]>>
                 \o Rows(k + 1)
    IN Rows(cur[1])

\* TrackletMerger (spec 4.5): the merge-join of the planes' Cluster
\* streams on event_number, from the cursors cur.  The smallest event
\* number under a cursor gives one Tracklet row; in it a plane has the
\* aligned positions of its clusters of that event (the reference plane 1
\* is not moved, the others are translated by 1), or none: "no hit" is
\* the empty sequence.  Each cursor moves past the rows it gave.
RECURSIVE MergeJoin(_, _)
MergeJoin(clusters, cur) ==
    LET live == {d \in DOMAIN clusters : cur[d] <= Len(clusters[d])}
        e == CHOOSE v \in {clusters[d][cur[d]].event_number : d \in live} :
                 \A d \in live : v <= clusters[d][cur[d]].event_number
        n == [d \in DOMAIN clusters |->
                 Cardinality({k \in cur[d]..Len(clusters[d]) :
                     \A j \in cur[d]..k : clusters[d][j].event_number = e})]
    IN IF live = {} THEN <<>>
       ELSE <<[event_number |-> e,
               hits |-> [d \in DOMAIN clusters |->
                            [i \in 1..n[d] |->
                                clusters[d][cur[d] + i - 1].x + (IF d = 1 THEN 0 ELSE 1)]]]>>
            \o MergeJoin(clusters, [d \in DOMAIN clusters |-> cur[d] + n[d]])

\* TrackFinder (spec 4.6): the candidates of the tracklets.  A candidate
\* is built plane by plane: the first plane with a hit gives its first hit;
\* a later plane gives the hit nearest to the straight line through the
\* first and the last plane assigned (plane d is at z = d), when it is
\* within the cutoff (1 unit of the position grid), and is absent otherwise.  The hits assigned are
\* removed and the next candidate is built from the hits left.  A
\* candidate with hits on fewer planes than track_quality is dropped.
FindTracks(tracklets, track_quality) ==
    LET Dist(cand, d, x) ==
            LET a == CHOOSE p \in DOMAIN cand : \A q \in DOMAIN cand : p <= q
                b == CHOOSE p \in DOMAIN cand : \A q \in DOMAIN cand : p >= q
                scale == IF a = b THEN 1 ELSE b - a
            IN [d |-> Abs(x * scale
                          - (cand[a].x * scale + (cand[b].x - cand[a].x) * (d - a))),
                cut |-> 1 * scale]
        Nearest(cand, d, xs) ==
            {k \in 1..Len(xs) :
                /\ Dist(cand, d, xs[k]).d <= Dist(cand, d, xs[k]).cut
                /\ \A j \in 1..Len(xs) :
                      \/ Dist(cand, d, xs[j]).d > Dist(cand, d, xs[k]).d
                      \/ Dist(cand, d, xs[j]).d = Dist(cand, d, xs[k]).d /\ k <= j}
        RECURSIVE Assign(_, _, _)
        Assign(hits, d, cand) ==
            IF d \notin DOMAIN hits THEN cand
            ELSE IF hits[d] = <<>> THEN Assign(hits, d + 1, cand)
            ELSE IF DOMAIN cand = {}
                 THEN Assign(hits, d + 1, (d :> [k |-> 1, x |-> hits[d][1]]))
            ELSE IF Nearest(cand, d, hits[d]) = {} THEN Assign(hits, d + 1, cand)
            ELSE LET k == Only(Nearest(cand, d, hits[d]))
                 IN Assign(hits, d + 1, cand @@ (d :> [k |-> k, x |-> hits[d][k]]))
        Without(s, k) == [i \in 1..(Len(s) - 1) |-> IF i < k THEN s[i] ELSE s[i + 1]]
        RECURSIVE Candidates(_, _)
        Candidates(e, hits) ==
            IF \A d \in DOMAIN hits : hits[d] = <<>> THEN <<>>
            ELSE LET cand == Assign(hits, 1, <<>>)
                 IN <<[event_number |-> e,
                       hit |-> [d \in DOMAIN cand |-> cand[d].x],
                       quality |-> Cardinality(DOMAIN cand)]>>
                    \o Candidates(e, [d \in DOMAIN hits |->
                                         IF d \in DOMAIN cand
                                         THEN Without(hits[d], cand[d].k)
                                         ELSE hits[d]])
        RECURSIVE All(_)
        All(rows) ==
            IF rows = <<>> THEN <<>>
            ELSE SelectSeq(Candidates(Head(rows).event_number, Head(rows).hits),
                           LAMBDA c : c.quality >= track_quality)
                 \o All(Tail(rows))
    IN All(tracklets)

\* TrackFitter (spec 4.7): the Track rows of the candidates.  The planes
\* used in a fit are those of the candidate's hits that are not ignored;
\* with equal weights the least-squares line x = (intercept + slope * z) / den
\* through them has the sums below.  A fit of n planes has n - 2 degrees of
\* freedom; a candidate with fewer than one is dropped.  The row holds the
\* line, the residual (times den) of every plane with a hit, the planes
\* used, and chi-square (times den squared).
FitTracks(candidates, ignore_duts) ==
    LET Row(c) ==
            LET used == DOMAIN c.hit \ ignore_duts
                z == [d \in used |-> d]
                x == [d \in used |-> c.hit[d]]
                zz == [d \in used |-> d * d]
                zx == [d \in used |-> d * c.hit[d]]
                n == Cardinality(used)
                den == n * SumOver(zz, used) - SumOver(z, used) * SumOver(z, used)
                slope == n * SumOver(zx, used) - SumOver(z, used) * SumOver(x, used)
                intercept == SumOver(x, used) * SumOver(zz, used)
                                - SumOver(z, used) * SumOver(zx, used)
                residual == [d \in DOMAIN c.hit |->
                                c.hit[d] * den - (intercept + slope * d)]
                squares == [d \in used |-> residual[d] * residual[d]]
            IN [event_number |-> c.event_number, den |-> den, slope |-> slope,
                intercept |-> intercept, residual |-> residual, used |-> used,
                hit |-> c.hit, chi2 |-> SumOver(squares, used)]
        RECURSIVE All(_)
        All(cs) ==
            IF cs = <<>> THEN <<>>
            ELSE (IF Cardinality(DOMAIN Head(cs).hit \ ignore_duts) - 2 < 1
                  THEN <<>> ELSE <<Row(Head(cs))>>)
                 \o All(Tail(cs))
    IN All(candidates)

\* merge_cluster_data (eutelescope line 91, fei4 line 38): a stream whose
\* event_number decreases aborts the merge and no file is written;
\* otherwise the Tracklets file is written.
TbaMerge ==
    /\ pc = "start"
    /\ call.fn = "tracks"
    /\ LET cl == [d \in 1..MaxPlanes |-> files[DataFile(d)].Cluster]
       IN IF \A d \in DOMAIN cl : NonDecreasing(EventNumbers(cl[d]))
          THEN /\ files' = (StageFile("Tracklets") :>
                               [Tracklets |-> MergeJoin(cl, [d \in DOMAIN cl |-> 1])])
                           @@ files
               /\ pc' = "merged"
               /\ err' = err
          ELSE /\ files' = files
               /\ pc' = "raised"
               /\ err' = "abort"
    /\ UNCHANGED <<run, driver, widget, files0, call, pos, occupancy, output_hits_file,
                   pixel_mask, disabled_pixels, noisy_pixels, chunks, cluster_hits,
                   output_file, opened>>

\* find_tracks (eutelescope lines 97-99, fei4 line 46): the TrackCandidates
\* file is written.  The calls give the function no minimum number of
\* planes; the one it applies by itself is call.finder_quality.
TbaFind ==
    /\ pc = "merged"
    /\ files' = (StageFile("TrackCandidates") :>
                    [TrackCandidates |->
                        FindTracks(files[StageFile("Tracklets")].Tracklets,
                                   call.finder_quality)])
                @@ files
    /\ pc' = "found"
    /\ UNCHANGED <<run, driver, widget, files0, call, pos, occupancy, output_hits_file,
                   pixel_mask, disabled_pixels, noisy_pixels, chunks, cluster_hits,
                   output_file, opened, err>>

\* A fit_tracks that ignores no plane.
TbaFitEveryPlane ==
    /\ pc = "found"
    /\ files' = (StageFile("Tracks") :>
                    [Tracks |->
                        FitTracks(SelectSeq(files[StageFile("TrackCandidates")].TrackCandidates,
                                            LAMBDA c : c.quality >= call.track_quality),
                                  {})])
                @@ files
    /\ pc' = "done"
    /\ UNCHANGED <<run, driver, widget, files0, call, pos, occupancy, output_hits_file,
                   pixel_mask, disabled_pixels, noisy_pixels, chunks, cluster_hits,
                   output_file, opened, err>>

\* fit_tracks (eutelescope lines 102-109, fei4 line 52), which is given
\* track_quality and ignore_duts: the candidates of the TrackCandidates
\* file with hits on track_quality planes or more are fitted and the Tracks
\* file is written.
TbaFit ==
    /\ pc = "found"
    /\ files' = (StageFile("Tracks") :>
                    [Tracks |->
                        FitTracks(SelectSeq(files[StageFile("TrackCandidates")].TrackCandidates,
                                            LAMBDA c : c.quality >= call.track_quality),
                                  call.ignore_duts)])
                @@ files
    /\ pc' = "done"
    /\ UNCHANGED <<run, driver, widget, files0, call, pos, occupancy, output_hits_file,
                   pixel_mask, disabled_pixels, noisy_pixels, chunks, cluster_hits,
                   output_file, opened, err>>

\* The Cluster files of the planes: no cluster, one cluster in event 1 or
\* in event 2, one in each, two in event 1, or event 2 before event 1; the
\* minimum number of planes of find_tracks, the one given to fit_tracks,
\* and the planes to ignore.
InitTracks ==
    /\ \E cl \in [1..MaxPlanes ->
                    {<<>>,
                     <<[event_number |-> 1, x |-> 0]>>,
                     <<[event_number |-> 2, x |-> 1]>>,
                     <<[event_number |-> 1, x |-> 1], [event_number |-> 2, x |-> 0]>>,
                     <<[event_number |-> 1, x |-> 0], [event_number |-> 1, x |-> 3]>>,
                     <<[event_number |-> 2, x |-> 0], [event_number |-> 1, x |-> 0]>>}] :
          files = [p \in {DataFile(d) : d \in 1..MaxPlanes} |->
                      [Cluster |-> cl[CHOOSE d \in 1..MaxPlanes : DataFile(d) = p]]]
    /\ files0 = files
    /\ \E fq \in {0, 3}, q \in {1, 3}, ig \in {{}, {2}} :
          call = [fn |-> "tracks", finder_quality |-> fq, track_quality |-> q,
                  ignore_duts |-> ig]
    /\ InitLocals

SpecTracks == InitTracks /\ [][TbaMerge \/ TbaFind \/ TbaFit]_vars

\* ----------------------------------- pixels between hit tables and masks

\* The runs that take a pixel from a hit to a mask and back: the removal
\* of noisy pixels, which generates its mask, and the clustering with the
\* mask files.
SpecPixels == (InitRemove \/ InitCluster) /\ [][Next]_vars

\* ---------------------------------- the check boxes of OptionMultiCheckBox

\* The number of labels in x; a matrix has as many labels in y.
MaxBoxes == 2

\* The widget is [name, dim, n, default_value, optional, opt, boxes, checked,
\* enabled, selection, emitted, err]: dim is 1 for labels in x only and 2 for
\* a matrix; the box check_boxes[i][j] is <<i, j>> and the box check_boxes[i]
\* of one dimension is <<i, 0>>; opt is the state of the optional check box;
\* emitted holds what the last handler has emitted, each entry
\* [none, values, duts_vals, checked, enabled] with none for the list
\* [None]; a dict is a
\* function of its keys to [iterable, v]; a default value or a selection
\* that is None is NoneValue, else [isNone |-> FALSE, list or dict].

\* _emit_value that lists the boxes checked, enabled or not.
EmitBoxesChecked(w) ==
    LET RECURSIVE Ascending(_)
        Ascending(S) ==
            IF S = {} THEN <<>>
            ELSE LET m == CHOOSE a \in S : \A b \in S : a <= b
                 IN <<m>> \o Ascending(S \ {m})
        tmp(i) == {j \in 0..(w.n - 1) : <<i, j>> \in w.checked}
        keys == {i \in 0..(w.n - 1) :
                    IF w.dim = 1 THEN <<i, 0>> \in w.checked ELSE tmp(i) # {}}
        Entry(i) == IF w.dim = 1 THEN [iterable |-> FALSE, v |-> i]
                    ELSE [iterable |-> TRUE, v |-> Ascending(tmp(i))]
        values == [k \in 1..Cardinality(keys) |-> Entry(Ascending(keys)[k]).v]
    IN [w EXCEPT !.emitted = Append(@,
            IF values = <<>> \/ w.enabled = {}
            THEN [none |-> w.default_value.isNone,
                  values |-> IF w.default_value.isNone THEN <<>> ELSE w.default_value.list,
                  duts_vals |-> <<>>, checked |-> w.checked, enabled |-> w.enabled]
            ELSE [none |-> FALSE, values |-> values,
                  duts_vals |-> [i \in keys |-> Entry(i)],
                  checked |-> w.checked, enabled |-> w.enabled])]

\* _emit_value (lines 590-594) with _get_values (lines 550-574) and
\* _all_disabled (lines 539-548): a matrix lists, for each column with a
\* box checked and enabled, the rows of these boxes; one dimension lists
\* the boxes checked (line 563); no entry or all boxes disabled gives the
\* default value, [None] for None, and the empty dict.  The entry keeps
\* the boxes that were checked and enabled when it was emitted.
EmitBoxes(w) ==
    LET RECURSIVE Ascending(_)
        Ascending(S) ==
            IF S = {} THEN <<>>
            ELSE LET m == CHOOSE a \in S : \A b \in S : a <= b
                 IN <<m>> \o Ascending(S \ {m})
        tmp(i) == {j \in 0..(w.n - 1) : <<i, j>> \in w.checked \cap w.enabled}
        keys == {i \in 0..(w.n - 1) :
                    IF w.dim = 1 THEN <<i, 0>> \in w.checked ELSE tmp(i) # {}}
        Entry(i) == IF w.dim = 1 THEN [iterable |-> FALSE, v |-> i]
                    ELSE [iterable |-> TRUE, v |-> Ascending(tmp(i))]
        values == [k \in 1..Cardinality(keys) |-> Entry(Ascending(keys)[k]).v]
    IN [w EXCEPT !.emitted = Append(@,
            IF values = <<>> \/ w.enabled = {}
            THEN [none |-> w.default_value.isNone,
                  values |-> IF w.default_value.isNone THEN <<>> ELSE w.default_value.list,
                  duts_vals |-> <<>>, checked |-> w.checked, enabled |-> w.enabled]
            ELSE [none |-> FALSE, values |-> values,
                  duts_vals |-> [i \in keys |-> Entry(i)],
                  checked |-> w.checked, enabled |-> w.enabled])]

\* _evaluate_state (lines 457-493) of a matrix.  With init every box not
\* checked is disabled and a row without a checked box gets the box of
\* column 0 checked (setChecked emits stateChanged, line 433); after a
\* click, in the row of the clicked box, every other box that is enabled
\* is unchecked and disabled and every other box that is disabled is
\* enabled.
EvaluateState(w, init, sender) ==
    LET N == 0..(w.n - 1)
        RECURSIVE CheckRows(_, _)
        CheckRows(v, rows) ==
            IF rows = {} THEN v
            ELSE LET row == CHOOSE a \in rows : \A b \in rows : a <= b
                 IN CheckRows(EmitBoxes([v EXCEPT !.checked = @ \cup {<<0, row>>}]),
                              rows \ {row})
        RECURSIVE Others(_, _)
        Others(v, j) ==
            IF j >= w.n THEN v
            ELSE IF j = sender[1] THEN Others(v, j + 1)
            ELSE IF <<j, sender[2]>> \in v.enabled
            THEN LET u == IF <<j, sender[2]>> \in v.checked
                          THEN EmitBoxes([v EXCEPT !.checked = @ \ {<<j, sender[2]>>}])
                          ELSE v
                 IN Others([u EXCEPT !.enabled = @ \ {<<j, sender[2]>>}], j + 1)
            ELSE Others([v EXCEPT !.enabled = @ \cup {<<j, sender[2]>>}], j + 1)
    IN IF init
       THEN CheckRows([w EXCEPT !.enabled = @ \cap w.checked],
                      {i \in N : \A j \in N : <<j, i>> \notin w.checked})
       ELSE Others(w, 0)

\* enable_selection (lines 495-537): a selection that is given and not
\* empty is stored; with a selection stored and a box enabled, all boxes
\* are disabled, the boxes of the selection are enabled (all of column i
\* for a value that is not iterable), the boxes checked and not enabled
\* are unchecked, each emitting stateChanged, and the value is emitted.
\* In one dimension line 518 or 523 raises TypeError (a check box has no
\* index) after all boxes were disabled.
EnableSelection(w, selection) ==
    LET w0 == IF ~selection.isNone /\ DOMAIN selection.dict # {}
              THEN [w EXCEPT !.selection = selection] ELSE w
        sel == w0.selection
        Has(s, x) == \E k \in DOMAIN s : s[k] = x
        en == {b \in w0.boxes :
                  /\ b[1] \in DOMAIN sel.dict
                  /\ sel.dict[b[1]].iterable => Has(sel.dict[b[1]].v, b[2])}
        w1 == [w0 EXCEPT !.enabled = en, !.checked = @ \cap en]
        e == EmitBoxes(w1)
    IN IF sel.isNone \/ w0.enabled = {} THEN w0
       ELSE IF w0.dim = 1 THEN [w0 EXCEPT !.enabled = {}, !.err = "TypeError"]
       ELSE [w1 EXCEPT !.emitted =
                @ \o [k \in 1..(Cardinality(w0.checked \ en) + 1) |->
                          e.emitted[Len(e.emitted)]]]

\* _set_readonly (lines 576-588): every box is disabled, or enabled and
\* then restricted by enable_selection(); the value is emitted.
SetReadonly(w, value) ==
    LET w1 == IF value THEN [w EXCEPT !.enabled = {}]
              ELSE EnableSelection([w EXCEPT !.enabled = w.boxes], NoneValue)
    IN IF w1.err # "" THEN w1 ELSE EmitBoxes(w1)

\* __init__ (lines 358-452).  The labels of 'Align duts' hold 'Align' and
\* those of 'Fit duts' hold 'Fit'.  The default value None checks column 0
\* ('Align'), all boxes off the diagonal ('Fit') or all boxes (one
\* dimension); a list checks, in column i of a matrix, the rows that line
\* 425 finds walking default_value[i], and in one dimension the box i with
\* default_value[i] == i (line 430).  'Align duts' then evaluates its
\* state, and an optional widget is made read-only.
ConstructBoxes(name, dim, n, d, optional) ==
    LET boxes == (0..(n - 1)) \X (IF dim = 1 THEN {0} ELSE 0..(n - 1))
        RECURSIVE Walk(_, _, _)
        Walk(col, j, k) ==
            IF j >= n THEN {}
            ELSE IF k < Len(col) /\ col[k + 1] = j
            THEN {j} \cup Walk(col, j + 1, k + 1)
            ELSE Walk(col, j + 1, k)
        checked ==
            IF d.isNone
            THEN CASE name = "Align duts" -> {b \in boxes : b[1] = 0}
                   [] name = "Fit duts" -> {b \in boxes : b[1] # b[2]}
                   [] OTHER -> boxes
            ELSE IF dim = 1
            THEN {b \in boxes : b[1] < Len(d.list) /\ d.list[b[1] + 1] = b[1]}
            ELSE {b \in boxes : b[1] < Len(d.list) /\ b[2] \in Walk(d.list[b[1] + 1], 0, 0)}
        w0 == [cls |-> "OptionMultiCheckBox", name |-> name, dim |-> dim, n |-> n,
               default_value |-> d, optional |-> optional, opt |-> FALSE,
               boxes |-> boxes, checked |-> checked, enabled |-> boxes,
               selection |-> NoneValue, emitted |-> <<>>, err |-> ""]
        w1 == IF name = "Align duts" THEN EvaluateState(w0, TRUE, <<0, 0>>) ELSE w0
    IN IF optional THEN SetReadonly(w1, TRUE) ELSE w1

\* The user clicks a box that is enabled: stateChanged emits the value
\* (line 433), then clicked evaluates the state of 'Align duts' (line 435).
BoxClick ==
    /\ \E b \in widget.enabled :
          LET w0 == [widget EXCEPT !.emitted = <<>>, !.err = ""]
              w1 == EmitBoxes([w0 EXCEPT !.checked =
                                  IF b \in @ THEN @ \ {b} ELSE @ \cup {b}])
          IN widget' = IF widget.name = "Align duts"
                       THEN EvaluateState(w1, FALSE, b) ELSE w1
    /\ UNCHANGED <<callVars, driver>>

\* The user toggles the optional check box: _set_readonly(v == 0), then
\* 'Align duts' evaluates its state as after construction (lines 448-451).
BoxToggle ==
    /\ widget.optional
    /\ LET w0 == [widget EXCEPT !.emitted = <<>>, !.err = "", !.opt = ~@]
           w1 == SetReadonly(w0, ~w0.opt)
       IN widget' = IF widget.name = "Align duts"
                    THEN EvaluateState(w1, TRUE, <<0, 0>>) ELSE w1
    /\ UNCHANGED <<callVars, driver>>

\* enable_selection is called with no selection or with a dict as
\* selectionChanged emits them: the first columns or the last column, given
\* by their own index (from a widget of one dimension), or every column
\* with the row of its own index (from a matrix).
BoxEnableSelection ==
    /\ \E keys \in {0..(k - 1) : k \in 0..widget.n} \cup {{widget.n - 1}},
          iterable \in BOOLEAN :
          /\ iterable => keys = 0..(widget.n - 1)
          /\ LET selection ==
                     IF keys = {} THEN NoneValue
                     ELSE [isNone |-> FALSE,
                           dict |-> [i \in keys |->
                               [iterable |-> iterable,
                                v |-> IF iterable THEN <<i>> ELSE i]]]
             IN widget' = EnableSelection([widget EXCEPT !.emitted = <<>>, !.err = ""],
                                          selection)
    /\ UNCHANGED <<callVars, driver>>

InitBoxes ==
    /\ NoCall
    /\ driver = NoDriver
    /\ \E optional \in BOOLEAN :
          \/ widget = ConstructBoxes("Align duts", 2, MaxBoxes, NoneValue, optional)
          \/ \E d \in {NoneValue, [isNone |-> FALSE, list |-> <<<<0>>, <<1>>>>]} :
                widget = ConstructBoxes("Fit duts", 2, MaxBoxes, d, optional)
          \/ \E d \in {NoneValue, [isNone |-> FALSE, list |-> <<0>>],
                       [isNone |-> FALSE, list |-> <<1>>]} :
                widget = ConstructBoxes("Select duts", 1, MaxBoxes, d, optional)

SpecBoxes == InitBoxes /\ [][BoxClick \/ BoxToggle \/ BoxEnableSelection]_vars

\* ------------------------------------------- the sliders of OptionMultiSlider

\* The largest number of labels.
MaxLabels == 2

\* The widget is [labels, default_value, optional, opt, readonly, maximum,
\* edits, moved, emitted, err]: labels is the number of labels, edits the
\* numbers the edits show, in label order, maximum the maximum of the
\* sliders, moved whether the user has moved a slider; a default value is
\* NoneValue, [isNone |-> FALSE, scalar |-> TRUE, v |-> number] or
\* [isNone |-> FALSE, scalar |-> FALSE, list |-> list]; an entry of emitted is
\* [active, values, edits], edits being what the edits showed then.  The
\* dtype is 'int'.  The sliders are not under src/: whether their setValue
\* issues valueChanged when it changes the value, as QSlider's does, is
\* chosen at construction (line 312 says a setValue issues none, line 322
\* that without the last emission one value is missing).

\* _emit_value (lines 341-347): the numbers of all edits, in the order of
\* self.edits, unless an edit is read-only; then [None] or the default
\* value as it was given.
EmitSliders(w) ==
    [w EXCEPT !.emitted = Append(@,
        IF ~w.readonly
        THEN [active |-> TRUE, values |-> [i \in 1..Len(w.edits) |-> w.edits[i]],
              edits |-> w.edits]
        ELSE [active |-> FALSE, values |-> w.default_value, edits |-> w.edits])]

\* __init__ (lines 250-322): None becomes 0, a default value that is not
\* iterable becomes a list of one value per label, and a list of another
\* length raises ValueError at line 266, before the loop of line 289
\* creates the sliders.  Each slider gets the maximum of line 268 and its
\* default value (line 310), where a setValue that changes the value of
\* the slider, which is 0, and issues valueChanged, runs _emit_value (line
\* 304) before the edit is appended to self.edits (line 313); each edit
\* shows the value of its slider; an optional widget is made read-only,
\* which emits, another one emits its value (line 322).
ConstructSliders(labels, d, optional, issues) ==
    LET default_value == IF d.isNone THEN [i \in 1..labels |-> 0]
                         ELSE IF d.scalar THEN [i \in 1..labels |-> d.v]
                         ELSE d.list
        Largest(s) == CHOOSE m \in {s[i] : i \in DOMAIN s} : \A i \in DOMAIN s : s[i] <= m
        w == [cls |-> "OptionMultiSlider", labels |-> labels, default_value |-> d,
              optional |-> optional, opt |-> FALSE, readonly |-> FALSE,
              maximum |-> 0, edits |-> <<>>, moved |-> FALSE, emitted |-> <<>>,
              err |-> ""]
        RECURSIVE Sliders(_, _)
        Sliders(v, i) ==
            IF i > labels THEN v
            ELSE LET u == IF issues /\ default_value[i] # 0 THEN EmitSliders(v) ELSE v
                 IN Sliders([u EXCEPT !.edits = Append(@, default_value[i])], i + 1)
    IN IF labels # Len(default_value) THEN [w EXCEPT !.err = "ValueError"]
       ELSE EmitSliders([Sliders([w EXCEPT !.maximum =
                                      IF 2 * Largest(default_value) > 1
                                      THEN 2 * Largest(default_value) ELSE 1], 1)
                            EXCEPT !.readonly = optional])

\* check_box.stateChanged (line 319): _set_readonly(v == 0) (lines 327-339)
\* makes every edit read-only or not and emits the value.
SlidersToggle ==
    /\ widget.err = ""
    /\ widget.optional
    /\ widget' = EmitSliders([widget EXCEPT !.opt = ~@, !.readonly = widget.opt,
                                            !.emitted = <<>>])
    /\ UNCHANGED <<callVars, driver>>

\* The user moves the slider of one label: its edit shows the new value
\* (line 303) and the value is emitted (line 304).
SlidersMove ==
    /\ widget.err = ""
    /\ \E i \in 1..widget.labels, v \in 0..widget.maximum :
          /\ v # widget.edits[i]
          /\ widget' = EmitSliders([widget EXCEPT !.edits[i] = v, !.moved = TRUE,
                                                  !.emitted = <<>>])
    /\ UNCHANGED <<callVars, driver>>

InitSliders ==
    /\ NoCall
    /\ driver = NoDriver
    /\ \E labels \in 1..MaxLabels, optional \in BOOLEAN :
          \E d \in {NoneValue, [isNone |-> FALSE, scalar |-> TRUE, v |-> 1]}
                   \cup {[isNone |-> FALSE, scalar |-> FALSE, list |-> [i \in 1..m |-> i]] :
                            m \in 1..(MaxLabels + 1)} :
              \E issues \in BOOLEAN : widget = ConstructSliders(labels, d, optional, issues)

SpecSliders == InitSliders /\ [][SlidersToggle \/ SlidersMove]_vars

\* ------------------------------------------------------------- properties

\* The Hits table the call was given.
InputHits == files0[call.input_hits_file].Hits

GpmReturned == call.fn = "generate_pixel_mask" /\ pc = "done"

ChReturned == call.fn = "cluster_hits" /\ pc = "done"

\* The mask generate_pixel_mask wrote.
WrittenMask == files[output_file].Masks[call.pixel_mask_name]

\* The Cluster table as it stands in the output file.
WrittenCluster == files[output_file].Cluster

\* ---- C1

\* The number of hits of the whole input on the pixel with index ix.
C1_Count(ix) ==
    Cardinality({k \in 1..Len(InputHits) :
        InputHits[k].column = ix[1] + 1 /\ InputHits[k].row = ix[2] + 1})

\* The index pairs around ix that a filter of (odd) size covers, on the grid
\* or past its edges.
C1_Neighbourhood(ix, size) ==
    {jx \in ((ix[1] - size[1])..(ix[1] + size[1])) \X ((ix[2] - size[2])..(ix[2] + size[2])) :
        2 * Abs(jx[1] - ix[1]) < size[1] /\ 2 * Abs(jx[2] - ix[2]) < size[2]}

\* The hit counts of all pixels.
C1_Occupancy == [ix \in Indices(call.n_pixel) |-> C1_Count(ix)]

\* The occupancy the neighbourhood shows at jx: zero past the edges.
C1_Padded(occ, jx) == IF jx \in DOMAIN occ THEN occ[jx] ELSE 0

\* The median of the neighbourhood of ix in occ: the value that fewer than
\* half of the neighbours are below and fewer than half are above.
C1_Smoothed(occ, ix) ==
    LET nb == C1_Neighbourhood(ix, call.filter_size)
    IN CHOOSE m \in 0..Len(InputHits) :
          /\ 2 * Cardinality({jx \in nb : C1_Padded(occ, jx) < m}) < Cardinality(nb)
          /\ 2 * Cardinality({jx \in nb : C1_Padded(occ, jx) > m}) < Cardinality(nb)

\* d > t * sigma for d = L / N and sigma = sqrt(V) / N, N > 0: L > t * sqrt(V).
C1_Above(L, t, V) ==
    IF t >= 0 THEN L > 0 /\ L * L > t * t * V
    ELSE L > 0 \/ (L = 0 /\ V > 0) \/ (L < 0 /\ L * L < t * t * V)

\* C1: the mask generate_pixel_mask writes has the shape n_pixel and flags a
\* pixel exactly when its difference = occupancy - smoothed is above
\* threshold * sigma: occupancy the number of hits of the whole input on the
\* pixel, smoothed the median of the pixel's neighbourhood with zeros past
\* the edges, sigma the standard deviation of difference over all pixels
\* (sigma^2 = (N * sum d^2 - (sum d)^2) / N^2); every other entry is False.
C1_MaskIsDifferenceAboveThresholdSigma ==
    GpmReturned =>
        LET I == Indices(call.n_pixel)
            N == Cardinality(I)
        IN \A occ \in {C1_Occupancy} :
           \A d \in {[ix \in I |-> occ[ix] - C1_Smoothed(occ, ix)]} :
           \A V \in {N * SumOver([ix \in I |-> d[ix] * d[ix]], I)
                        - SumOver(d, I) * SumOver(d, I)} :
              /\ DOMAIN WrittenMask = I
              /\ \A ix \in I :
                    WrittenMask[ix] <=> C1_Above(N * d[ix], call.threshold, V)

\* A returned call with a positive threshold whose mask flags a pixel and
\* leaves a pixel with hits unflagged, where the median is not zero everywhere.
C1_FlaggedAndUnflaggedPixels ==
    /\ GpmReturned
    /\ call.threshold > 0
    /\ \E ix \in Indices(call.n_pixel) : WrittenMask[ix]
    /\ \E ix \in Indices(call.n_pixel) : ~WrittenMask[ix] /\ C1_Count(ix) > 0
    /\ \E ix \in Indices(call.n_pixel) : C1_Smoothed(C1_Occupancy, ix) > 0

\* ---- C2

\* C2: on a Hits table without rows generate_pixel_mask does not raise, and
\* when it returns it has written a mask of shape n_pixel whose entries are
\* all False.
C2_NoHitsGiveAnEmptyMask ==
    (call.fn = "generate_pixel_mask" /\ InputHits = <<>>) =>
        /\ pc # "raised"
        /\ pc = "done" =>
              /\ DOMAIN WrittenMask = Indices(call.n_pixel)
              /\ \A ix \in Indices(call.n_pixel) : ~WrittenMask[ix]

\* ---- C3

\* C3: cluster_hits never returns normally on a Hits table in which some row
\* has a smaller event_number than the row before it, wherever the decrease
\* is and whatever chunk_size is.
C3_DecreasingEventNumberNeverAccepted ==
    (call.fn = "cluster_hits" /\ ~NonDecreasing(EventNumbers(InputHits))) =>
        pc # "done"

\* ---- C4

\* C4: when cluster_hits has raised, the output file does not exist or its
\* Cluster table holds no row.
C4_NoClusterRowsAfterRaise ==
    (call.fn = "cluster_hits" /\ pc = "raised") =>
        \/ output_file \notin DOMAIN files
        \/ WrittenCluster = <<>>

\* ---- C5

RECURSIVE C5_Concat(_)
C5_Concat(cs) == IF cs = <<>> THEN <<>> ELSE Head(cs) \o C5_Concat(Tail(cs))

C5_Events(rows) == {rows[k].event_number : k \in 1..Len(rows)}

\* C5: on a Hits table with non-decreasing event_number and for every
\* chunk_size, no event_number occurs in two chunks the reader has yielded,
\* the chunks yielded so far are, concatenated, a prefix of the table that
\* no event of a later row occurs in, and when the function has returned
\* they are the whole table.
C5_ChunksNeverSplitAnEvent ==
    NonDecreasing(EventNumbers(InputHits)) =>
        \A read \in {C5_Concat(chunks)} :
            /\ \A i, j \in 1..Len(chunks) :
                  i < j => C5_Events(chunks[i]) \cap C5_Events(chunks[j]) = {}
            /\ Len(read) <= Len(InputHits)
            /\ read = SubSeq(InputHits, 1, Len(read))
            /\ \A k \in (Len(read) + 1)..Len(InputHits) :
                  InputHits[k].event_number \notin C5_Events(read)
            /\ pc = "done" => read = InputHits

\* A returned call whose first chunk was extended past chunk_size rows and
\* was followed by another chunk.
C5_ExtendedChunkThenAnother ==
    /\ pc = "done"
    /\ NonDecreasing(EventNumbers(InputHits))
    /\ Len(chunks) >= 2
    /\ Len(chunks[1]) > call.chunk_size

\* ---- C6, C7, C8

\* A hit survives when its charge is inside [min_hit_charge, max_hit_charge]
\* and no mask file given to the call has a True entry at its pixel.
SurvivingHit(h) ==
    /\ h.charge >= call.min_hit_charge
    /\ call.max_hit_charge.isNone \/ h.charge <= call.max_hit_charge.v
    /\ \/ call.input_noisy_pixel_mask_file = None
       \/ ~files0[call.input_noisy_pixel_mask_file].Masks[NoisyPixelMask]
                [<<h.column - 1, h.row - 1>>]
    /\ \/ call.input_disabled_pixel_mask_file = None
       \/ ~files0[call.input_disabled_pixel_mask_file].Masks[DisabledPixelMask]
                [<<h.column - 1, h.row - 1>>]

\* The rows of the input that survive.
SurvivingRows == {k \in 1..Len(InputHits) : SurvivingHit(InputHits[k])}

C6_Near(h1, h2) ==
    /\ Abs(h1.column - h2.column) <= call.column_cluster_distance
    /\ Abs(h1.row - h2.row) <= call.row_cluster_distance
    /\ Abs(h1.frame - h2.frame) <= call.frame_cluster_distance

\* The pairs of surviving rows joined by a chain of at most n steps, each
\* step between two near surviving hits of one event.
RECURSIVE C6_Chains(_)
C6_Chains(n) ==
    IF n = 0 THEN {<<k, k>> : k \in SurvivingRows}
    ELSE LET prev == C6_Chains(n - 1)
         IN prev \cup UNION {
                {<<p[1], k>> : k \in {j \in SurvivingRows :
                    /\ InputHits[j].event_number = InputHits[p[2]].event_number
                    /\ C6_Near(InputHits[p[2]], InputHits[j])}}
                : p \in prev}

\* The surviving rows that the clusterizer put in the cluster of row.
C6_Members(row) ==
    {k \in SurvivingRows :
        /\ InputHits[k].event_number = row.event_number
        /\ cluster_hits[k].cluster_ID = row.ID}

\* C6: after cluster_hits returned on a Hits table with non-decreasing
\* event_number, two surviving hits of one event have the same cluster
\* exactly when a chain of surviving hits of that event joins them, each
\* step within the column, row and frame distance; a cluster is one row of
\* the Cluster table, keyed by event_number and ID, its hits are hits of
\* its event_number only and n_hits counts them; its seed is one of its
\* hits of highest charge; two near hits of one event that are the whole
\* input give one row with n_hits = 2.
C6_ClustersAreConnectedComponents ==
    (ChReturned /\ NonDecreasing(EventNumbers(InputHits))) =>
        \A R \in {C6_Chains(Len(InputHits))} :
            /\ Len(cluster_hits) = Len(InputHits)
            /\ \A k1, k2 \in SurvivingRows :
                  InputHits[k1].event_number = InputHits[k2].event_number =>
                      (cluster_hits[k1].cluster_ID = cluster_hits[k2].cluster_ID
                          <=> <<k1, k2>> \in R)
            /\ \A n, m \in 1..Len(WrittenCluster) :
                  (/\ WrittenCluster[n].event_number = WrittenCluster[m].event_number
                   /\ WrittenCluster[n].ID = WrittenCluster[m].ID) => n = m
            /\ \A n \in 1..Len(WrittenCluster) :
                  LET row == WrittenCluster[n]
                      members == C6_Members(row)
                  IN /\ members # {}
                     /\ row.n_hits = Cardinality(members)
                     /\ \E k \in members :
                           /\ InputHits[k].column = row.seed_column
                           /\ InputHits[k].row = row.seed_row
                           /\ \A j \in members : InputHits[j].charge <= InputHits[k].charge
            /\ (/\ Len(InputHits) = 2
                /\ SurvivingRows = {1, 2}
                /\ InputHits[1].event_number = InputHits[2].event_number
                /\ C6_Near(InputHits[1], InputHits[2]))
                  => (Len(WrittenCluster) = 1 /\ WrittenCluster[1].n_hits = 2)

\* A returned call that wrote one cluster of three hits, the first and the
\* last of which are not near each other, and whose seed is not its first hit.
C6_ThreeHitChainInOneCluster ==
    /\ ChReturned
    /\ Len(InputHits) = 3
    /\ ~C6_Near(InputHits[1], InputHits[3])
    /\ Len(WrittenCluster) = 1
    /\ WrittenCluster[1].n_hits = 3
    /\ WrittenCluster[1].seed_column # InputHits[1].column

\* ---- C7

\* The sum of n_hits over the rows of the Cluster table with event_number e.
C7_HitsClustered(e) ==
    SumOver([n \in 1..Len(WrittenCluster) |-> WrittenCluster[n].n_hits],
            {n \in 1..Len(WrittenCluster) : WrittenCluster[n].event_number = e})

C8_EveryEventWithSurvivingHitIsClustered ==
    ChReturned =>
        \A k \in SurvivingRows :
            \E n \in 1..Len(WrittenCluster) :
                WrittenCluster[n].event_number = InputHits[k].event_number

\* A returned call that read two chunks or more, the first of an event
\* without a surviving hit and a later one of an event with one.
C8_LaterChunkEventClustered ==
    /\ ChReturned
    /\ Len(chunks) >= 2
    /\ \A k \in 1..Len(chunks[1]) : ~SurvivingHit(chunks[1][k])
    /\ \E k \in SurvivingRows : InputHits[k].event_number # InputHits[1].event_number

\* ---- C9

\* C9: after cluster_hits returned, the event_number column of the whole
\* Cluster table is non-decreasing.
C9_WholeClusterTableNonDecreasing ==
    ChReturned => NonDecreasing(EventNumbers(WrittenCluster))

\* ---- C10

\* C10: no input path of the call is opened for writing and the file at
\* every input path stays what it was.
C10_InputFilesNeverWritten ==
    \A p \in InputPaths(call) :
        /\ <<p, "w">> \notin opened
        /\ files[p] = files0[p]

\* ---- C11

\* C11: when generate_pixel_mask is run a second time with the same
\* arguments on the same Hits table, the file it leaves at the output path
\* is the file the first run left there, whatever the path held when the
\* second run started, and no other file has changed.
C11_SecondRunWritesTheSameMaskFile ==
    (run.n >= 2 /\ GpmReturned) =>
        /\ ~run.previous.isNone
        /\ files[output_file] = run.previous.f
        /\ \A p \in DOMAIN files0 \ {output_file} :
              p \in DOMAIN files /\ files[p] = files0[p]

\* A second run has returned; the output path held another file when it
\* started, and the mask written has a masked pixel.
C11_SecondRunReplacedAnotherFile ==
    /\ run.n = 2
    /\ GpmReturned
    /\ output_file \in DOMAIN files0
    /\ files0[output_file] = OtherFile
    /\ \E ix \in DOMAIN WrittenMask : WrittenMask[ix]

\* ---- C12

FilesOf(i) == {p \in DOMAIN driver.files : i \in driver.files[p].writers}

\* C13: once a worker of the pool has raised, no other worker is stopped
\* before it has run to completion, and every worker that has ended, the
\* failed one included, has left each file it opened for writing complete.
C13_WorkerFailureLeavesSiblingsAndFilesWhole ==
    (\E k \in DOMAIN driver.jobs : driver.jobs[k].pc = "raised") =>
        \A i \in DOMAIN driver.jobs :
            /\ driver.jobs[i].pc # "killed"
            /\ driver.jobs[i].pc \notin Unfinished =>
                  \A p \in FilesOf(i) : driver.files[p].st = "complete"

\* ---- C14

\* C14: of jobs started on pairwise different input hits files with default
\* output paths, no two ever open the same path for writing.
C14_EveryPathHasOneWriter ==
    \A p \in DOMAIN driver.files : Cardinality(driver.files[p].writers) <= 1

\* ---- C15

\* The statements of the script executed so far.
Executed == SubSeq(Script(driver.script), 1, driver.ip - 1)

\* Every per-DUT job the script submits in its run is done.
C15_AllJobsCompleted ==
    \A k \in DOMAIN Script(driver.script) :
        Script(driver.script)[k].op \in {"apply_async", "map"} =>
            \A d \in Duts :
                \E i \in DOMAIN driver.jobs :
                    /\ driver.jobs[i].fn = Script(driver.script)[k].fn
                    /\ driver.jobs[i].dut = d
                    /\ driver.jobs[i].pc = "done"

\* No clustering job of a DUT has started unless the noisy-pixel-removal
\* job of that DUT is done.
C15_ClusteringAfterRemoval ==
    \A i, k \in DOMAIN driver.jobs :
        (/\ driver.jobs[i].fn = "cluster_hits"
         /\ driver.jobs[i].pc # "queued"
         /\ driver.jobs[k].fn = "remove_noisy_pixels"
         /\ driver.jobs[k].dut = driver.jobs[i].dut)
            => driver.jobs[k].pc = "done" /\ driver.jobs[k].returned = driver.jobs[i].input

\* C15: once a function of all DUTs (correlation, alignment, merging, track
\* finding, fitting) has been called, every per-DUT job of the run is done;
\* and no clustering job starts before the noisy-pixel-removal job of its
\* DUT has returned its output file.
C15_CrossDutStagesAfterAllJobs ==
    /\ (\E k \in DOMAIN Executed : Executed[k].op = "call") => C15_AllJobsCompleted
    /\ C15_ClusteringAfterRemoval

\* ---- C16

\* The place of a function in the order noise masking (1), clustering (2),
\* correlation (3), alignment (4), tracklet merging (5), track finding (6),
\* track fitting (7); 0 for a function that is none of these stages.
C16_Stage(fn) ==
    CASE fn \in {"generate_pixel_mask", "remove_noisy_pixels"} -> 1
      [] fn = "cluster_hits" -> 2
      [] fn = "correlate_hits" -> 3
      [] fn \in {"coarse_alignment", "align_hits"} -> 4
      [] fn = "merge_cluster_data" -> 5
      [] fn = "find_tracks" -> 6
      [] fn = "fit_tracks" -> 7
      [] OTHER -> 0

\* C16: every stage a script has invoked was preceded by all the stages
\* before it in the fixed order, and correlation was given Cluster files.
C16_StagesInvokedInTheFixedOrder ==
    \A k \in DOMAIN Executed :
        /\ \A r \in 1..(C16_Stage(Executed[k].fn) - 1) :
              \E j \in 1..(k - 1) : C16_Stage(Executed[j].fn) = r
        /\ Executed[k].fn = "correlate_hits" =>
              Executed[k].arg \in {"cluster_files", "noisy_pixels_cluster_files"}

\* ---- C17

\* The mask generate_pixel_mask computes from the written occupancy, with
\* the filter_size of the call, at threshold t.
C17_MaskAt(t) == NoisyPixelsMask(files[output_file].HistOcc, call.filter_size, t)

\* C17: every pixel that generate_pixel_mask masks at a threshold t2 is
\* masked in the mask it wrote at a lower or equal threshold t1, for the same
\* Hits table, n_pixel and filter_size.
C17_LowerThresholdMasksMore ==
    GpmReturned =>
        \A t2 \in {t \in Thresholds : call.threshold <= t} :
            \A m2 \in {C17_MaskAt(t2)} :
                \A ix \in DOMAIN m2 : m2[ix] => WrittenMask[ix]

\* A mask written at threshold 0 with a pixel that the higher threshold 2
\* leaves unmasked, and one that it masks as well.
C17_StrictlyMoreMaskedAtLowerThreshold ==
    /\ GpmReturned
    /\ call.threshold = 0
    /\ \E m2 \in {C17_MaskAt(2)} :
          /\ \E ix \in DOMAIN m2 : WrittenMask[ix] /\ ~m2[ix]
          /\ \E ix \in DOMAIN m2 : WrittenMask[ix] /\ m2[ix]

\* ---- C18

\* The pixels, as <<column, row>>, that generate_pixel_mask finds noisy in
\* the hits given, with the n_pixel, filter_size and threshold of the call.
C18_NoisyPixels(hits) ==
    {<<ix[1] + 1, ix[2] + 1>> : ix \in
        {jx \in Indices(call.n_pixel) :
            NoisyPixelsMask(Hist2dIndex(hits, call.n_pixel), call.filter_size,
                            call.threshold)[jx]}}

\* The hits of a chunk that are not on one of the pixels.
C18_Off(hits, pixels) == SelectSeq(hits, LAMBDA h : <<h.column, h.row>> \notin pixels)

\* remove_noisy_pixels is in, or past, its loop over the chunks.
C18_Removing == call.fn = "remove_noisy_pixels" /\ pc \in {"reading", "done"}

C21_Copies == [k \in 1..files0[call.input_hits_file].Hits.nrows |->
                  files0[call.input_hits_file].Hits.Repeated]

\* For the tables of up to MaxHits rows, the clusters of the repeated-hit
\* table are the clusters the clusterizer makes of the table hit by hit.
C21_RepeatedAgreesWithClusterize ==
    ChReturned /\ files0[call.input_hits_file].Hits.nrows <= MaxHits
        => WrittenCluster
             = Clusterize(C21_Copies, ClusterizerArgs(call), NoneValue, NoneValue).cluster

\* C21: every Cluster row written by cluster_hits has n_hits >= 1 and
\* charge >= 0, also for a cluster of more hits than the 16-bit n_hits
\* column can count.
C21_ClusterRowsHaveHitsAndCharge ==
    ChReturned =>
        \A k \in 1..Len(WrittenCluster) :
            WrittenCluster[k].n_hits >= 1 /\ WrittenCluster[k].charge >= 0

\* ---- C22

\* The Tracklet rows written, and the Cluster streams they were merged from.
WrittenTracklets == files[StageFile("Tracklets")].Tracklets

C22_Streams == [d \in 1..MaxPlanes |-> files0[DataFile(d)].Cluster]

\* The event numbers of plane d's Cluster stream.
C22_Events(d) == {C22_Streams[d][k].event_number : k \in 1..Len(C22_Streams[d])}

\* C22: the Tracklets table has exactly one row for every event_number that
\* is in the Cluster stream of at least one plane and no other row, and in
\* a row a plane is marked "no hit" exactly when it has no cluster of the
\* row's event.
C22_OneTrackletRowPerEvent ==
    call.fn = "tracks" /\ pc \in {"merged", "found", "done"} =>
        /\ {WrittenTracklets[k].event_number : k \in 1..Len(WrittenTracklets)}
               = UNION {C22_Events(d) : d \in 1..MaxPlanes}
        /\ \A j, k \in 1..Len(WrittenTracklets) :
              WrittenTracklets[j].event_number = WrittenTracklets[k].event_number => j = k
        /\ \A k \in 1..Len(WrittenTracklets) : \A d \in 1..MaxPlanes :
              WrittenTracklets[k].hits[d] = <<>>
                  <=> WrittenTracklets[k].event_number \notin C22_Events(d)

\* An event with clusters in planes 1 and 3 and none in plane 2 has its
\* row, with plane 2 marked "no hit".
C22_EventAbsentFromOnePlane ==
    /\ call.fn = "tracks" /\ pc = "merged"
    /\ 1 \in C22_Events(1) /\ 1 \notin C22_Events(2) /\ 1 \in C22_Events(3)
    /\ 2 \in C22_Events(2)
    /\ \E k \in 1..Len(WrittenTracklets) :
          /\ WrittenTracklets[k].event_number = 1
          /\ WrittenTracklets[k].hits[1] # <<>>
          /\ WrittenTracklets[k].hits[2] = <<>>
          /\ WrittenTracklets[k].hits[3] # <<>>

\* ---- C23

\* The candidates that reach fit_tracks, and the Track rows it writes.
WrittenCandidates == files[StageFile("TrackCandidates")].TrackCandidates

WrittenTracks == files[StageFile("Tracks")].Tracks

\* Every Track row is the fit of a candidate with hits on at least the
\* configured number of planes, and no error was raised on the way.
C23_FittedCandidatesHaveEnoughPlanes ==
    call.fn = "tracks" /\ pc = "done" =>
        /\ err = "none"
        /\ \A k \in 1..Len(WrittenTracks) :
              Cardinality(DOMAIN WrittenTracks[k].hit) >= call.track_quality

C24_Usable(c) == DOMAIN c.hit \ call.ignore_duts

\* The candidates fit_tracks selects that have one degree of freedom or more.
C24_Determined ==
    SelectSeq(WrittenCandidates,
              LAMBDA c : c.quality >= call.track_quality
                         /\ Cardinality(C24_Usable(c)) - 2 >= 1)

C25_CountOfFirst(n, ix) ==
    Cardinality({k \in 1..n :
        InputHits[k].column = ix[1] + 1 /\ InputHits[k].row = ix[2] + 1})

\* C25: what generate_pixel_mask accumulates and stores is determined by
\* the Hits table and the arguments other than chunk_size: after every
\* chunk the occupancy is the histogram of the rows read so far, the
\* stored HistOcc is the histogram of all rows, entry (column - 1, row - 1)
\* counting the hits of pixel (column, row), the stored mask is the mask of
\* that histogram, and the call raises only on a table without rows.
C25_ResultIndependentOfChunkSize ==
    call.fn = "generate_pixel_mask" =>
        /\ (pc = "gpm_reading" /\ ~occupancy.isNone) =>
              occupancy.a = [ix \in Indices(call.n_pixel) |-> C25_CountOfFirst(pos - 1, ix)]
        /\ pc = "raised" => InputHits = <<>>
        /\ pc = "done" =>
              /\ files[output_file].HistOcc
                    = [ix \in Indices(call.n_pixel) |-> C25_CountOfFirst(Len(InputHits), ix)]
              /\ WrittenMask
                    = NoisyPixelsMask([ix \in Indices(call.n_pixel) |->
                                          C25_CountOfFirst(Len(InputHits), ix)],
                                      call.filter_size, call.threshold)

\* A run that read two chunks, both with a hit on the same pixel, and
\* masked a pixel.
C25_PixelCountedAcrossChunks ==
    /\ GpmReturned
    /\ Len(chunks) = 2
    /\ \E i, j \in 1..Len(chunks) :
          /\ i < j
          /\ \E h \in {chunks[i][k] : k \in 1..Len(chunks[i])} :
                \E g \in {chunks[j][k] : k \in 1..Len(chunks[j])} :
                    h.column = g.column /\ h.row = g.row
    /\ \E ix \in DOMAIN WrittenMask : WrittenMask[ix]

\* ---- C26

\* The Hits table and the mask in the file remove_noisy_pixels wrote.
WrittenHits == files[output_hits_file].Hits

C26_Mask == files[output_hits_file].Masks[DisabledPixelMask]

\* C26: the Hits table remove_noisy_pixels has written is the input Hits
\* table without the rows on masked pixels, the other rows once each and in
\* their input order; a non-decreasing event_number stays non-decreasing;
\* with no pixel masked the table is the input table.
C26_OutputIsInputWithoutMaskedRows ==
    call.fn = "remove_noisy_pixels" /\ pc = "done" =>
        /\ WrittenHits = SelectSeq(InputHits,
                             LAMBDA h : ~C26_Mask[<<h.column - 1, h.row - 1>>])
        /\ NonDecreasing(EventNumbers(InputHits)) => NonDecreasing(EventNumbers(WrittenHits))
        /\ (\A ix \in DOMAIN C26_Mask : ~C26_Mask[ix]) => WrittenHits = InputHits

\* A run over two chunks that kept the second of three hits and removed
\* the first and the third, which are on one pixel.
C26_MiddleHitKept ==
    /\ call.fn = "remove_noisy_pixels" /\ pc = "done"
    /\ Len(chunks) = 2
    /\ Len(InputHits) = 3
    /\ C26_Mask[<<InputHits[1].column - 1, InputHits[1].row - 1>>]
    /\ C26_Mask[<<InputHits[3].column - 1, InputHits[3].row - 1>>]
    /\ WrittenHits = <<InputHits[2]>>

\* ---- C27

\* The number of rows of a Hits table on the 1-based pixel (column, row).
C27_HitsOn(hits, column, row) ==
    Cardinality({k \in 1..Len(hits) : hits[k].column = column /\ hits[k].row = row})

\* The 1-based pixels whose entry, at the index one less in each
\* coordinate, is True in the mask array.
C27_PixelsOf(mask) ==
    {p \in (1..MaskNPixel[1]) \X (1..MaskNPixel[2]) : mask[<<p[1] - 1, p[2] - 1>>]}

\* C27: remove_noisy_pixels counts a hit at (column, row) at the occupancy
\* index (column - 1, row - 1), and for a True mask entry at index (i, j)
\* it removes all hits with column = i + 1 and row = j + 1 and no others;
\* cluster_hits hands the clusterizer, for each mask file, the pixels
\* (i + 1, j + 1) of the True entries (i, j), and the clusterizer gives no
\* cluster to a hit on one of them.
C27_PixelCoordinatesRoundTrip ==
    /\ call.fn = "remove_noisy_pixels" /\ pc = "done" =>
          \A i \in 0..(call.n_pixel[1] - 1), j \in 0..(call.n_pixel[2] - 1) :
              /\ files[output_hits_file].HistOcc[<<i, j>>] = C27_HitsOn(InputHits, i + 1, j + 1)
              /\ C27_HitsOn(WrittenHits, i + 1, j + 1)
                    = IF C26_Mask[<<i, j>>] THEN 0 ELSE C27_HitsOn(InputHits, i + 1, j + 1)
    /\ call.fn = "cluster_hits" /\ pc \in {"reading", "done"} =>
          /\ call.input_noisy_pixel_mask_file # None =>
                noisy_pixels.px
                    = C27_PixelsOf(files0[call.input_noisy_pixel_mask_file].Masks[NoisyPixelMask])
          /\ call.input_disabled_pixel_mask_file # None =>
                disabled_pixels.px
                    = C27_PixelsOf(files0[call.input_disabled_pixel_mask_file].Masks[DisabledPixelMask])
          /\ call.input_noisy_pixel_mask_file # None =>
                \A k \in 1..Len(cluster_hits) :
                    cluster_hits[k].hit.column = 2 /\ cluster_hits[k].hit.row = 1
                        => cluster_hits[k].cluster_ID = 0 - 1

\* A removal that dropped the hits of a masked pixel off the diagonal
\* and kept another hit.
C27_OffDiagonalPixelRemoved ==
    /\ call.fn = "remove_noisy_pixels" /\ pc = "done"
    /\ C26_Mask[<<1, 0>>]
    /\ ~C26_Mask[<<0, 0>>]
    /\ C27_HitsOn(InputHits, 2, 1) >= 2
    /\ C27_HitsOn(WrittenHits, 2, 1) = 0
    /\ Len(WrittenHits) >= 1

\* ---- C28

\* The steps (columns) a dict lists the DUT (row) under.
C28_StepsOf(duts_vals, row) ==
    {i \in DOMAIN duts_vals : \E k \in DOMAIN duts_vals[i].v : duts_vals[i].v[k] = row}

\* After construction and after every handler of 'Align duts' no row has
\* boxes checked and enabled in two columns.
C28_NoDutCheckedInTwoSteps ==
    widget.cls = "OptionMultiCheckBox" /\ widget.name = "Align duts" =>
        \A b \in widget.checked \cap widget.enabled :
            \A c \in widget.checked \cap widget.enabled : b[2] = c[2] => b[1] = c[1]

\* C28: in 'Align duts' no DUT is checked and enabled in more than one
\* alignment step, and no selection emitted lists a DUT under two steps.
C28_AlignDutsAssignmentIsExclusive ==
    /\ C28_NoDutCheckedInTwoSteps
    /\ widget.cls = "OptionMultiCheckBox" /\ widget.name = "Align duts" =>
          \A k \in 1..Len(widget.emitted) :
              \A row \in 0..(widget.n - 1) :
                  Cardinality(C28_StepsOf(widget.emitted[k].duts_vals, row)) <= 1

\* ---- C29

\* The boxes an emitted entry lists: <<i, j>> for the row j in the list
\* of column i of a matrix, <<i, 0>> for the index i in one dimension.
C29_Listed(e) ==
    IF widget.dim = 1
    THEN {<<e.values[k], 0>> : k \in 1..Len(e.values)}
    ELSE {b \in widget.boxes :
             /\ b[1] \in DOMAIN e.duts_vals
             /\ \E k \in DOMAIN e.duts_vals[b[1]].v : e.duts_vals[b[1]].v[k] = b[2]}

\* The columns with a box checked and enabled when the entry was emitted.
C29_Contributing(e) == {b[1] : b \in e.checked \cap e.enabled}

C30_DefaultLength ==
    IF widget.default_value.isNone \/ widget.default_value.scalar
    THEN widget.labels ELSE Len(widget.default_value.list)

\* OptionMultiSlider raises ValueError exactly for a default value whose
\* length is not the number of labels, and then no slider or edit exists
\* and nothing was emitted; until a slider is moved every edit shows its
\* default value, 0 for None and the scalar for a scalar; the last list
\* emitted by an active widget has one value per label, the value of the
\* edit of that label.
C30_RejectsAndAppliesDefault ==
    widget.cls = "OptionMultiSlider" =>
        /\ widget.err = "ValueError" <=> C30_DefaultLength # widget.labels
        /\ widget.err = "ValueError" => widget.edits = <<>> /\ widget.emitted = <<>>
        /\ widget.err = "" /\ ~widget.moved =>
              /\ Len(widget.edits) = widget.labels
              /\ \A i \in 1..widget.labels :
                    widget.edits[i] = IF widget.default_value.isNone THEN 0
                                      ELSE IF widget.default_value.scalar
                                      THEN widget.default_value.v
                                      ELSE widget.default_value.list[i]
        /\ widget.err = "" /\ ~widget.readonly =>
              widget.emitted[Len(widget.emitted)].values = widget.edits

\* C30: OptionMultiSlider rejects a default value of another length than
\* the labels before any slider is created, applies a scalar default or 0
\* for None to every label, and every list emitted while the option is
\* active has exactly one value per label, in label order.
C30_EveryActiveEmissionHasOneValuePerLabel ==
    /\ C30_RejectsAndAppliesDefault
    /\ widget.cls = "OptionMultiSlider" =>
          \A k \in 1..Len(widget.emitted) :
              widget.emitted[k].active =>
                  /\ Len(widget.emitted[k].values) = widget.labels
                  /\ \A i \in 1..widget.labels :
                        widget.emitted[k].values[i] = widget.emitted[k].edits[i]

====
